---------------------------- MODULE Spec2Model ----------------------------
(***************************************************************************)
(* Verification model of the WT901BLE68 live vibration monitor             *)
(* (wt901_live_graph_v2.py, wt901_live_graph.py).                          *)
(*                                                                         *)
(* The module holds one state machine per component, each with its own     *)
(* specification over the shared variable list:                            *)
(*   SpecDecoder  the frame scan of BLEHandler.data_handler                *)
(*   SpecRing     the consumer-side deques of the queue-based monitor      *)
(*   SpecBridge   the FileMessenger sample log                             *)
(*   SpecMessenger, SpecMessengerFaults, FairMessenger                     *)
(*                the FileMessenger channels under threads, lock and I/O   *)
(*   SpecStats    the rolling statistics of update_plot                    *)
(* A component's actions leave the other components' variables unchanged.  *)
(***************************************************************************)
EXTENDS Integers, Sequences, FiniteSets, TLC

VARIABLES
    \* ---- frame decoder (BLEHandler.data_handler) ----
    stream,      \* the bytes the sensor sends on the wire, in order
    delivered,   \* how many bytes of stream the transport has handed over
    cuts,        \* stream offsets at which a notification ended (ghost)
    data,        \* the `data` argument of the current data_handler call
    i,           \* the scan index `i` of data_handler
    pc,          \* "idle" | "scan" | "raised"
    out,         \* samples passed to process_acceleration_data in this call
    visited,     \* ghost: the values `i` has taken at the loop head in this call
    emitted,     \* ghost: <<stream offset, frame length>> of every sample ever emitted
    calls,       \* number of data_handler calls started
    \* ---- consumer-side buffers (LiveVibrationMonitor, wt901_live_graph.py) ----
    data_queue,  \* self.data_queue: samples put by data_handler, not yet drained
    packet_count,\* self.packet_count
    timestamps,  \* self.timestamps, a deque(maxlen=1000)
    acc_data,    \* self.acc_data, a deque(maxlen=1000)
    acc_total,   \* self.acc_total, a deque(maxlen=1000)
    plot_pc,     \* update_plot: "idle" | "drain"
    put_pc,      \* data_handler: "idle" | "count" (between put and packet_count += 1)
    appended,    \* ghost: every sample appended to the deques, in order
    \* ---- sample log of the bridge (FileMessenger, wt901_live_graph_v2.py) ----
    data_file,   \* vib_data.json: [exists, content]
    published,   \* ghost: the concatenation of every batch saved, in order
    result,      \* the last FileMessenger call and what it returned
    \* ---- the bridge under threads (FileMessenger, wt901_live_graph_v2.py) ----
    lock,        \* self.lock: "free" or the thread that holds it
    message_file,\* vib_messages.json: [exists, content]
    status_file, \* vib_status.json: [exists, content]
    corrupt,     \* the channel files whose bytes are not one JSON document
    th,          \* per thread: the FileMessenger call it is in and its locals
    nops,        \* number of FileMessenger calls started
    pending,     \* ghost: the event of the last completed send not yet taken
    replaced,    \* ghost: the events a later completed send has replaced
    status_log,  \* ghost: the arguments of the completed update_status calls
    last_drain,  \* ghost: the drains completed since the last completed publish
    \* ---- rolling statistics (LiveVibrationMonitor.update_plot, wt901_live_graph_v2.py) ----
    mon_acc_total, \* self.acc_total of the v2 monitor: magnitudes, in 1/100 g
    stat_pc,     \* "idle" | "mean_loop" | "std_begin" | "std_loop"
    acc_list,    \* the local acc_list
    idx,         \* the loop variable i
    loop_count,  \* the length of range(window - win_size + 1)
    means,       \* the local means (EMA values appended so far)
    peaks,       \* the local peaks
    stds,        \* the local stds (EMA values appended so far)
    x_vals,      \* the local x_vals
    ema_val,     \* the local ema_mean / ema_std: <<>> for None, else <<value>>
    raw_vals,    \* ghost: the values of the local mean / std, one per iteration
    lines,       \* the data of self.lines['mean'], ['peak'], ['std']
    tick_done,   \* an update_plot tick has completed on the present buffer
    \* ---- status panel (LiveVibrationMonitor.update_lower_right, wt901_live_graph_v2.py) ----
    main_pc,     \* main(): "constructed" | "running"
    csv_found,   \* vibration_log.csv as load_baseline_data found it
    baseline_data, \* self.baseline_data: <<>> for None, else <<the loaded history>>
    show_status, \* self.show_status
    mon_status,  \* self.is_connected, self.device_name, self.device_mac
    texts,       \* the text and colour of the status panel's text objects
    evals,       \* ghost: <<the last evaluation of the status branch>>; its field
                 \* `again`: the evaluation before it had the same mean, on a
                 \* buffer of another length and under another fetched status
    last_logged, \* ghost: <<the row log_vibration_data appended last>> to vibration_log.csv
    \* ---- producer life cycle (BLEHandler.run_ble_loop, start/stop_ble_thread) ----
    is_running,  \* self.ble_handler.is_running
    client,      \* self.ble_handler.client: 0 for None, else the thread that made it
    link,        \* per BleakClient: "none" | "down" | "up" | "lost" (is_connected = up)
    handler_device, \* self.ble_handler.device_name / device_mac: <<>> or <<device>>
    ble_thread,  \* self.ble_thread: 0 for None, else the thread
    prod,        \* per producer thread: its position in run_ble_loop and its locals
    gui,         \* the GUI thread inside on_connect_device / on_mock_device
    mock_active, \* self.mock_active
    started,     \* number of producer threads started
    stopped,     \* ghost: stop_ble_thread was called since the last start_ble_thread
    \* ---- batching producer and polling consumer (process_acceleration_data, update_plot) ----
    handler_batch, \* self.data_batch of the BLE handler
    ble_packet_count, \* self.packet_count of the BLE handler
    proc_pc,     \* process_acceleration_data: "idle" | "save" | "send" | "clear"
    publishes,   \* ghost: number of save_data_batch calls the BLE handler has made
    mon_packet_count, \* self.packet_count of the v2 monitor
    mon_timestamps, \* self.timestamps of the v2 monitor
    mon_acc_data,\* self.acc_data of the v2 monitor
    mon_buf_total, \* self.acc_total of the v2 monitor, as the entries' acc_total fields
    tick_pc,     \* update_plot: "idle" | "get_message" | "handle" | "load" | "stats"
    polled,      \* the local `message` of update_plot: <<>> for None, else <<message>>
    replaying_test, \* self.replaying_test
    tick_log,    \* ghost: what the present tick fed, polled and loaded
    \* ---- mock replay threads (start_mock_device) ----
    mock,        \* per mock thread: its position in mock_thread
    mock_started \* number of mock threads started

decoderVars == <<stream, delivered, cuts, data, i, pc, out, visited, emitted, calls>>

ringVars ==
    <<data_queue, packet_count, timestamps, acc_data, acc_total, plot_pc, put_pc, appended>>

bridgeVars == <<data_file, published, result>>

messengerVars ==
    <<lock, message_file, status_file, corrupt, th, nops,
      pending, replaced, status_log, last_drain>>

statsVars ==
    <<mon_acc_total, stat_pc, acc_list, idx, loop_count, means, peaks, stds,
      x_vals, ema_val, raw_vals, lines, tick_done>>

panelVars ==
    <<main_pc, csv_found, baseline_data, show_status, mon_status, texts, evals, last_logged>>

producerVars ==
    <<is_running, client, link, handler_device, ble_thread, prod, gui,
      mock_active, started, stopped>>

pipeVars ==
    <<handler_batch, ble_packet_count, proc_pc, publishes, mon_packet_count,
      mon_timestamps, mon_acc_data, mon_buf_total, tick_pc, polled,
      replaying_test, tick_log>>

mockVars == <<mock, mock_started>>

vars ==
    <<decoderVars, ringVars, bridgeVars, messengerVars, statsVars, panelVars,
      producerVars, pipeVars, mockVars>>

-----------------------------------------------------------------------------
(* Bounds of the model *)

\* number of segments (garbage bytes, frames) a modelled wire stream is built from
MaxSegs == 2
\* number of notification callbacks the transport delivers
MaxCalls == 2
\* number of samples the queue-based monitor decodes in a run
MaxSamples == 1005
\* number of samples waiting in data_queue at once
MaxQueue == 2
\* number of samples the producers publish to the bridge in a run
MaxPublished == 1051
\* number of FileMessenger calls the threads start in a run
MaxOps == 4
\* number of FileMessenger calls the threads start in a run with I/O faults
MaxFaultOps == 3
\* number of producer threads start_ble_thread starts in a run without restart
MaxStarts == 1
\* number of times a run with restarts starts a producer thread again
MaxRestarts == 1
\* number of batches the producers save in a run of the life cycle
MaxBatches == 1
\* number of FileMessenger calls the threads start in a run checked for progress
MaxFairOps == 2
\* length of the longest magnitude buffer the statistics are computed on
MaxLen == 35
\* number of mock threads start_mock_device starts in a run
MaxMockStarts == 2
\* number of samples the BLE handler decodes in a run of the pipeline
MaxDecoded == 251

-----------------------------------------------------------------------------
(* Wire format constants *)

HeaderByte == 85     \* 0x55
Kind51 == 81         \* 0x51
Kind61 == 97         \* 0x61
FrameLen51 == 11
FrameLen61 == 16
AccDivisor == 32768
AccRange == 16

\* Python None, as a value comparable with the symbolic norm
None == <<"None">>

-----------------------------------------------------------------------------
(* Python sequence helpers: 0-based subscripts and half-open slices *)

\* data[k]
At(d, k) == d[k + 1]

\* data[a:b] for 0 <= a, with b clamped to len(data) as Python does
Slice(d, a, b) ==
    LET hi == IF b > Len(d) THEN Len(d) ELSE b
    IN  IF a >= hi THEN <<>> ELSE SubSeq(d, a + 1, hi)

-----------------------------------------------------------------------------
(* parse_wt901_data *)

\* struct.unpack('<h', b)[0]: two bytes, little-endian, two's complement
Unpack_h_BigEndian(b) ==
    LET u == 256 * b[1] + b[2]
    IN  IF u >= 32768 THEN u - 65536 ELSE u

Unpack_h(b) ==
    LET u == b[1] + 256 * b[2]
    IN  IF u >= 32768 THEN u - 65536 ELSE u

\* raw / 32768.0 * 16, kept exact as the numerator of a fraction over AccDivisor
\* (the division by 2^15 and the multiplication by 16 are exact in binary
\* floating point, so the float result is exactly ToG(raw) / AccDivisor).
ToG(raw) == raw * AccRange

\* The three axis fields of a frame, read the way both branches read them.
AccFields(frame) ==
    [acc_x |-> ToG(Unpack_h(Slice(frame, 2, 4))),
     acc_y |-> ToG(Unpack_h(Slice(frame, 4, 6))),
     acc_z |-> ToG(Unpack_h(Slice(frame, 6, 8)))]

\* np.sqrt(acc_x**2 + acc_y**2 + acc_z**2): kept symbolic as the norm of the triple
Norm(a) == <<"norm", a.acc_x, a.acc_y, a.acc_z>>

\* parse_wt901_data with the second branch's length test applied to both kinds
parse_wt901_data_Min16(frame) ==
    IF Len(frame) >= FrameLen61 /\ At(frame, 0) = HeaderByte /\ At(frame, 1) \in {Kind51, Kind61}
    THEN LET a == AccFields(frame)
         IN  [acc_x |-> a.acc_x, acc_y |-> a.acc_y, acc_z |-> a.acc_z, acc_total |-> Norm(a)]
    ELSE [acc_x |-> None, acc_y |-> None, acc_z |-> None, acc_total |-> None]

\* parse_wt901_data(data): the (acc_x, acc_y, acc_z, acc_total) tuple, or None
parse_wt901_data(frame) ==
    IF Len(frame) >= FrameLen51 /\ At(frame, 0) = HeaderByte /\ At(frame, 1) = Kind51
    THEN LET a == AccFields(frame)
         IN  [acc_x |-> a.acc_x, acc_y |-> a.acc_y, acc_z |-> a.acc_z, acc_total |-> Norm(a)]
    ELSE IF Len(frame) >= FrameLen61 /\ At(frame, 0) = HeaderByte /\ At(frame, 1) = Kind61
    THEN LET a == AccFields(frame)
         IN  [acc_x |-> a.acc_x, acc_y |-> a.acc_y, acc_z |-> a.acc_z, acc_total |-> Norm(a)]
    ELSE [acc_x |-> None, acc_y |-> None, acc_z |-> None, acc_total |-> None]

-----------------------------------------------------------------------------
(* data_handler: the conditions of the frame-splitting loop *)

\* the condition without its test of the kind byte
FrameAtAnyKind(d, k, kind, flen) ==
    k + flen <= Len(d) /\ At(d, k) = HeaderByte

\* `i + flen <= len(data) and data[i] == 0x55 and data[i+1] == kind`
\* The length test comes first and short-circuits the two subscripts.
FrameAt(d, k, kind, flen) ==
    k + flen <= Len(d) /\ At(d, k) = HeaderByte /\ At(d, k + 1) = kind

\* the subscripts evaluated when the length test is written last
SubscriptsUnguarded(d, k) ==
    {k} \cup (IF k < Len(d) /\ At(d, k) = HeaderByte THEN {k + 1} ELSE {})

\* The subscripts the if/elif conditions evaluate at scan index k, in the
\* code's short-circuit order: none unless i + 11 <= len(data) (the elif's
\* i + 16 <= len(data) implies it).
Subscripts(d, k) ==
    IF k + FrameLen51 <= Len(d)
    THEN {k} \cup (IF At(d, k) = HeaderByte THEN {k + 1} ELSE {})
    ELSE {}

\* An IndexError is raised when a subscript lies outside the bytes object.
IndexError(d, k) == \E s \in Subscripts(d, k) : s >= Len(d)

\* `i += 11`, `i += 16`, `i += 1`
AdvanceByOne(k, n) == k + 1

Advance(k, n) == k + n

\* The sample record handed to process_acceleration_data, with the frame it
\* came from (frame_at, frame_len are ghost fields).
SampleOf(p, k, flen) ==
    [frame_at |-> k, frame_len |-> flen,
     acc_x |-> p.acc_x, acc_y |-> p.acc_y, acc_z |-> p.acc_z,
     acc_total |-> p.acc_total]

\* The bytes a data_handler call scans: exactly its `data` argument; nothing
\* of the previous call is kept.
ReceivedBuffered(previous, chunk) == previous \o chunk

Received(previous, chunk) == chunk

-----------------------------------------------------------------------------
(* Wire streams the model feeds the decoder *)

Frame51(payload) == <<HeaderByte, Kind51>> \o payload
Frame61(payload) == <<HeaderByte, Kind61>> \o payload

\* ax=100, ay=-200, az=16384, two temperature bytes, checksum
PayloadExample == <<100, 0, 56, 255, 0, 64, 41, 9, 77>>
\* a 0x61 payload whose first two bytes look like a 0x51 header, so that the
\* frame holds the 11 bytes 55 51 38 FF 00 40 07 01 02 03 04 at offset 2
PayloadHeaderLike == <<HeaderByte, Kind51, 56, 255, 0, 64, 7, 1, 2, 3, 4, 5, 6, 8>>

Segments ==
    { <<0>>, <<HeaderByte>>,
      Frame51(PayloadExample),
      Frame61(PayloadHeaderLike) }

RECURSIVE Streams(_)
Streams(k) ==
    IF k = 0 THEN { <<>> }
    ELSE LET S == Streams(k - 1)
         IN  S \cup { s \o g : s \in S, g \in Segments }

-----------------------------------------------------------------------------
(* The state of each component right after construction *)

\* BLEHandler before any notification
DecoderConstructed ==
    /\ delivered = 0
    /\ cuts = {}
    /\ data = <<>>
    /\ i = 0
    /\ pc = "idle"
    /\ out = <<>>
    /\ visited = {}
    /\ emitted = {}
    /\ calls = 0

\* LiveVibrationMonitor.__init__ (wt901_live_graph.py)
RingConstructed ==
    /\ data_queue = <<>>
    /\ packet_count = 0
    /\ timestamps = <<>>
    /\ acc_data = <<>>
    /\ acc_total = <<>>
    /\ plot_pc = "idle"
    /\ put_pc = "idle"
    /\ appended = <<>>

\* FileMessenger.__init__ with no vib_data.json on disk
BridgeConstructed ==
    /\ data_file = [exists |-> FALSE, content |-> <<>>]
    /\ published = <<>>
    /\ result = [op |-> "none", arg |-> 0, value |-> <<>>]

\* the threads that call the FileMessenger: the BLE thread (start_ble_thread),
\* the mock-device thread (start_mock_device) and the GUI thread (update_plot)
Threads == {"ble", "mock", "gui"}

\* a thread outside any FileMessenger call
ThreadIdle ==
    [pc |-> "idle", op |-> "none", arg |-> <<>>, local |-> <<>>, ret |-> <<>>,
     fault |-> FALSE, before |-> <<>>]

\* FileMessenger.__init__ with none of the three channel files on disk, and
\* no thread inside a call
MessengerConstructed ==
    /\ lock = "free"
    /\ message_file = [exists |-> FALSE, content |-> <<>>]
    /\ status_file = [exists |-> FALSE, content |-> <<>>]
    /\ corrupt = {}
    /\ th = [t \in Threads |-> ThreadIdle]
    /\ nops = 0
    /\ pending = <<>>
    /\ replaced = {}
    /\ status_log = <<>>
    /\ last_drain = <<>>

\* setup_plot: the three statistics lines are created with no data, and no
\* update_plot tick has run
StatsConstructed ==
    /\ stat_pc = "idle"
    /\ acc_list = <<>>
    /\ idx = 0
    /\ loop_count = 0
    /\ means = <<>>
    /\ peaks = <<>>
    /\ stds = <<>>
    /\ x_vals = <<>>
    /\ ema_val = <<>>
    /\ raw_vals = <<>>
    /\ lines = [mean |-> [x |-> <<>>, y |-> <<>>],
                peak |-> [x |-> <<>>, y |-> <<>>],
                std |-> [x |-> <<>>, y |-> <<>>]]
    /\ tick_done = FALSE

\* BLEHandler.__init__ (data_batch, packet_count) and LiveVibrationMonitor.__init__
\* (packet_count, the three deques, replaying_test = test_mode)
PipeConstructed ==
    /\ handler_batch = <<>>
    /\ ble_packet_count = 0
    /\ proc_pc = "idle"
    /\ publishes = 0
    /\ mon_packet_count = 0
    /\ mon_timestamps = <<>>
    /\ mon_acc_data = <<>>
    /\ mon_buf_total = <<>>
    /\ tick_pc = "idle"
    /\ polled = <<>>
    /\ replaying_test = FALSE
    /\ tick_log = <<>>

\* the mock threads of a run, in the order start_mock_device starts them
MockThreads == 1 .. MaxMockStarts

\* no mock thread has been started
MockConstructed ==
    /\ mock = [m \in MockThreads |-> [pc |-> "unstarted", index |-> 0]]
    /\ mock_started = 0

\* the producer threads of a run, in the order start_ble_thread starts them
Producers == 1 .. (1 + MaxRestarts)

\* a producer thread not yet started
ProducerUnstarted ==
    [pc |-> "unstarted", device |-> <<>>, target |-> 0, subscribed |-> FALSE,
     sent |-> <<>>, wrote |-> <<>>, ops |-> <<>>]

\* BLEHandler.__init__ and LiveVibrationMonitor.__init__: no client, not
\* running, no thread, the GUI thread in no handler
ProducerConstructed ==
    /\ is_running = FALSE
    /\ client = 0
    /\ link = [p \in Producers |-> "none"]
    /\ handler_device = <<>>
    /\ ble_thread = 0
    /\ prod = [p \in Producers |-> ProducerUnstarted]
    /\ gui = [pc |-> "idle", device |-> <<>>]
    /\ mock_active = FALSE
    /\ started = 0
    /\ stopped = FALSE

\* LiveVibrationMonitor.__init__ and setup_plot: no history loaded, the status
\* view selected, no status fetched, the panel showing its initial texts
PanelConstructed ==
    /\ main_pc = "constructed"
    /\ csv_found = [exists |-> FALSE, readable |-> FALSE, Mean_Acc_g |-> 0]
    /\ baseline_data = <<>>
    /\ show_status = TRUE
    /\ mon_status = [connected |-> FALSE, device_name |-> <<>>, device_mac |-> <<>>]
    /\ texts = [status_text |-> <<"Waiting for connection...">>,
                current_val |-> <<>>,
                baseline_diff |-> <<>>,
                alert |-> [text |-> <<>>, color |-> "green"],
                device_info |-> <<>>,
                visible |-> TRUE]
    /\ evals = <<>>
    /\ last_logged = <<>>

-----------------------------------------------------------------------------
(* Decoder state machine *)

InitDecoder ==
    /\ stream \in Streams(MaxSegs)
    /\ DecoderConstructed
    /\ RingConstructed
    /\ BridgeConstructed
    /\ MessengerConstructed
    /\ mon_acc_total = <<>>
    /\ StatsConstructed
    /\ PanelConstructed
    /\ ProducerConstructed
    /\ PipeConstructed
    /\ MockConstructed

\* A notification carries at least one byte while the stream has bytes left;
\* once it is exhausted an empty notification is the only one possible.
ChunkSizes(remaining) == IF remaining = 0 THEN {0} ELSE 1 .. remaining

\* The transport delivers the next n bytes of the stream as one notification
\* and bleak calls data_handler(sender, data): i = 0.
Notify ==
    /\ pc = "idle"
    /\ calls < MaxCalls
    /\ \E n \in ChunkSizes(Len(stream) - delivered) :
          /\ data' = Received(data, Slice(stream, delivered, delivered + n))
          /\ delivered' = delivered + n
          /\ cuts' = cuts \cup {delivered + n}
    /\ i' = 0
    /\ out' = <<>>
    /\ visited' = {}
    /\ pc' = "scan"
    /\ calls' = calls + 1
    /\ UNCHANGED <<stream, emitted>>
    /\ UNCHANGED <<mockVars, pipeVars, producerVars, panelVars, ringVars, bridgeVars, messengerVars, statsVars>>

\* One iteration of `while i < len(data)`.
ScanStep ==
    /\ pc = "scan"
    /\ i < Len(data)
    /\ visited' = visited \cup {i}
    /\ IF IndexError(data, i)
       THEN /\ pc' = "raised"
            /\ UNCHANGED <<i, out, emitted>>
       ELSE /\ pc' = pc
            /\ IF FrameAt(data, i, Kind51, FrameLen51)
               THEN LET p == parse_wt901_data(Slice(data, i, i + FrameLen51))
                    IN  /\ out' = IF p.acc_total # None THEN Append(out, SampleOf(p, i, FrameLen51)) ELSE out
                        /\ emitted' = IF p.acc_total # None
                                      THEN emitted \cup {<<delivered - Len(data) + i, FrameLen51>>}
                                      ELSE emitted
                        /\ i' = Advance(i, FrameLen51)
               ELSE IF FrameAt(data, i, Kind61, FrameLen61)
               THEN LET p == parse_wt901_data(Slice(data, i, i + FrameLen61))
                    IN  /\ out' = IF p.acc_total # None THEN Append(out, SampleOf(p, i, FrameLen61)) ELSE out
                        /\ emitted' = IF p.acc_total # None
                                      THEN emitted \cup {<<delivered - Len(data) + i, FrameLen61>>}
                                      ELSE emitted
                        /\ i' = Advance(i, FrameLen61)
               ELSE /\ i' = Advance(i, 1)
                    /\ UNCHANGED <<out, emitted>>
    /\ UNCHANGED <<stream, delivered, cuts, data, calls>>
    /\ UNCHANGED <<mockVars, pipeVars, producerVars, panelVars, ringVars, bridgeVars, messengerVars, statsVars>>

\* The loop condition fails: data_handler returns.
ScanDone ==
    /\ pc = "scan"
    /\ i >= Len(data)
    /\ pc' = "idle"
    /\ UNCHANGED <<stream, delivered, cuts, data, i, out, visited, emitted, calls>>
    /\ UNCHANGED <<mockVars, pipeVars, producerVars, panelVars, ringVars, bridgeVars, messengerVars, statsVars>>

NextDecoder == Notify \/ ScanStep \/ ScanDone

SpecDecoder == InitDecoder /\ [][NextDecoder]_vars

\* A single data_handler call on a prefix of the stream, which the event loop
\* runs to completion once started.
NotifyFirst == calls = 0 /\ Notify

NextFirstCall == NotifyFirst \/ ScanStep \/ ScanDone

FairDecoder ==
    InitDecoder /\ [][NextFirstCall]_vars /\ WF_vars(ScanStep) /\ WF_vars(ScanDone)

-----------------------------------------------------------------------------
(* Consumer-side buffers of the queue-based monitor (wt901_live_graph.py) *)

\* maxlen of self.timestamps, self.acc_data, self.acc_total
DequeMaxLen == 1000

\* deque(maxlen=n).append(x) without the bound
DequeAppendUnbounded(d, x, maxlen) == Append(d, x)

\* deque(maxlen=n).append(x): when the deque is full the element at the
\* opposite (left) end is discarded
DequeAppend(d, x, maxlen) ==
    IF Len(d) >= maxlen THEN Append(Tail(d), x) ELSE Append(d, x)

\* The k-th sample data_handler decodes, as the dict it puts in the queue.
\* The buffers never look into a sample, so its content is fixed by k.
QueuedSample(k) ==
    [timestamp |-> k,
     acc_data |-> <<(k % 7) - 3, (k % 5) - 2, 2048 + (k % 3)>>,
     acc_total |-> <<"norm", (k % 7) - 3, (k % 5) - 2, 2048 + (k % 3)>>]

InitRing ==
    /\ stream = <<>>
    /\ DecoderConstructed
    /\ RingConstructed
    /\ BridgeConstructed
    /\ MessengerConstructed
    /\ mon_acc_total = <<>>
    /\ StatsConstructed
    /\ PanelConstructed
    /\ ProducerConstructed
    /\ PipeConstructed
    /\ MockConstructed

\* data_handler decodes a frame: self.data_queue.put({...})
HandlerPut ==
    /\ put_pc = "idle"
    /\ packet_count < MaxSamples
    /\ Len(data_queue) < MaxQueue
    /\ data_queue' = Append(data_queue, QueuedSample(packet_count + 1))
    /\ put_pc' = "count"
    /\ UNCHANGED <<packet_count, timestamps, acc_data, acc_total, plot_pc, appended>>
    /\ UNCHANGED <<mockVars, pipeVars, producerVars, panelVars, decoderVars, bridgeVars, messengerVars, statsVars>>

\* data_handler, after the put: self.packet_count += 1
HandlerCount ==
    /\ put_pc = "count"
    /\ packet_count' = packet_count + 1
    /\ put_pc' = "idle"
    /\ UNCHANGED <<data_queue, timestamps, acc_data, acc_total, plot_pc, appended>>
    /\ UNCHANGED <<mockVars, pipeVars, producerVars, panelVars, decoderVars, bridgeVars, messengerVars, statsVars>>

\* update_plot is called by the animation timer and reaches its drain loop
UpdatePlotBegin ==
    /\ plot_pc = "idle"
    /\ plot_pc' = "drain"
    /\ UNCHANGED <<data_queue, packet_count, timestamps, acc_data, acc_total, put_pc, appended>>
    /\ UNCHANGED <<mockVars, pipeVars, producerVars, panelVars, decoderVars, bridgeVars, messengerVars, statsVars>>

\* the loop taking the newest item of the queue
UpdatePlotDrainOneNewest ==
    /\ plot_pc = "drain"
    /\ data_queue # <<>>
    /\ LET item == data_queue[Len(data_queue)]
       IN  /\ timestamps' = DequeAppend(timestamps, item.timestamp, DequeMaxLen)
           /\ acc_data' = DequeAppend(acc_data, item.acc_data, DequeMaxLen)
           /\ acc_total' = DequeAppend(acc_total, item.acc_total, DequeMaxLen)
           /\ appended' = Append(appended, item)
    /\ data_queue' = SubSeq(data_queue, 1, Len(data_queue) - 1)
    /\ UNCHANGED <<packet_count, plot_pc, put_pc>>
    /\ UNCHANGED <<mockVars, pipeVars, producerVars, panelVars, decoderVars, bridgeVars, messengerVars, statsVars>>

\* one iteration of `while not self.data_queue.empty()`: get_nowait and the
\* three appends
UpdatePlotDrainOne ==
    /\ plot_pc = "drain"
    /\ data_queue # <<>>
    /\ LET item == Head(data_queue)
       IN  /\ timestamps' = DequeAppend(timestamps, item.timestamp, DequeMaxLen)
           /\ acc_data' = DequeAppend(acc_data, item.acc_data, DequeMaxLen)
           /\ acc_total' = DequeAppend(acc_total, item.acc_total, DequeMaxLen)
           /\ appended' = Append(appended, item)
    /\ data_queue' = Tail(data_queue)
    /\ UNCHANGED <<packet_count, plot_pc, put_pc>>
    /\ UNCHANGED <<mockVars, pipeVars, producerVars, panelVars, decoderVars, bridgeVars, messengerVars, statsVars>>

\* the queue is found empty: the loop ends and update_plot goes on to redraw
UpdatePlotDrained ==
    /\ plot_pc = "drain"
    /\ data_queue = <<>>
    /\ plot_pc' = "idle"
    /\ UNCHANGED <<data_queue, packet_count, timestamps, acc_data, acc_total, put_pc, appended>>
    /\ UNCHANGED <<mockVars, pipeVars, producerVars, panelVars, decoderVars, bridgeVars, messengerVars, statsVars>>

NextRing ==
    \/ HandlerPut \/ HandlerCount
    \/ UpdatePlotBegin \/ UpdatePlotDrainOne \/ UpdatePlotDrained

SpecRing == InitRing /\ [][NextRing]_vars

-----------------------------------------------------------------------------
(* The sample log of the bridge: FileMessenger.save_data_batch, get_latest_data *)

\* `if len(existing_data) > 1000: existing_data = existing_data[-1000:]`
LogCap == 1000
\* BLEHandler.batch_size
batch_size == 50
\* load_latest_data: get_latest_data(max_points=200)
LoadMaxPoints == 200

\* Python's seq[-m:] for m >= 0: -0 is 0, so seq[-0:] is the whole sequence
NegSliceFrom(d, m) ==
    IF m = 0 THEN d
    ELSE Slice(d, IF Len(d) - m > 0 THEN Len(d) - m ELSE 0, Len(d))

\* `existing_data[-1000:]` mistaken for the first 1000
TrimKeepOldest(d, cap) == IF Len(d) > cap THEN Slice(d, 0, cap) ELSE d

\* the trim of save_data_batch
Trim(d, cap) == IF Len(d) > cap THEN NegSliceFrom(d, cap) ELSE d

\* The content save_data_batch writes, given the file it finds
SavedContent(file, data_batch) ==
    LET existing_data == IF file.exists THEN file.content ELSE <<>>
    IN  Trim(existing_data \o data_batch, LogCap)

\* get_latest_data(max_points)
get_latest_data(file, max_points) ==
    IF file.exists
    THEN IF Len(file.content) > max_points
         THEN NegSliceFrom(file.content, max_points)
         ELSE file.content
    ELSE <<>>

\* The k-th sample published, as the dict process_acceleration_data builds.
\* The bridge never looks into a sample, so its content is fixed by k.
DataPoint(k) ==
    [timestamp |-> k,
     acc_x |-> (k % 7) - 3, acc_y |-> (k % 5) - 2, acc_z |-> 2048 + (k % 3),
     acc_total |-> <<"norm", (k % 7) - 3, (k % 5) - 2, 2048 + (k % 3)>>]

\* the next n samples, in arrival order
Batch(first, n) == [j \in 1 .. n |-> DataPoint(first + j - 1)]

\* The sizes of the batches the producers save: the BLE handler saves
\* batch_size samples at a time, the mock thread one.
BatchSizes == {1, batch_size}

\* The max_points arguments the model calls get_latest_data with
MaxPointsArgs == {0, 1, 2, LoadMaxPoints}

InitBridge ==
    /\ stream = <<>>
    /\ DecoderConstructed
    /\ RingConstructed
    /\ BridgeConstructed
    /\ MessengerConstructed
    /\ mon_acc_total = <<>>
    /\ StatsConstructed
    /\ PanelConstructed
    /\ ProducerConstructed
    /\ PipeConstructed
    /\ MockConstructed

\* save_data_batch(data_batch), under self.lock
SaveDataBatch ==
    /\ \E n \in BatchSizes :
          /\ Len(published) + n <= MaxPublished
          /\ LET data_batch == Batch(Len(published) + 1, n)
             IN  /\ data_file' = [exists |-> TRUE,
                                  content |-> SavedContent(data_file, data_batch)]
                 /\ published' = published \o data_batch
          /\ result' = [op |-> "save_data_batch", arg |-> n, value |-> <<>>]
    /\ UNCHANGED <<mockVars, pipeVars, producerVars, panelVars, statsVars, decoderVars, ringVars, messengerVars>>

\* get_latest_data(max_points), under self.lock
GetLatestData ==
    /\ \E m \in MaxPointsArgs :
          result' = [op |-> "get_latest_data", arg |-> m,
                     value |-> get_latest_data(data_file, m)]
    /\ UNCHANGED <<data_file, published>>
    /\ UNCHANGED <<mockVars, pipeVars, producerVars, panelVars, statsVars, decoderVars, ringVars, messengerVars>>

NextBridge == SaveDataBatch \/ GetLatestData

SpecBridge == InitBridge /\ [][NextBridge]_vars

-----------------------------------------------------------------------------
(* The three channels of the bridge under threads: every FileMessenger       *)
(* operation as lock acquisition, its file system calls one by one, and lock *)
(* release                                                                   *)

\* Python None is modelled as the empty tuple where a value is optional
\* get_status: {'connected': False, 'device_name': None, 'device_mac': None}
DefaultStatus == [connected |-> FALSE, device_name |-> <<>>, device_mac |-> <<>>]

\* connect_to_device: the status written after a successful connect
StatusConnected(n) ==
    [connected |-> TRUE, device_name |-> <<"WT901BLE68">>, device_mac |-> <<"AA:BB">>,
     connection_time |-> n]

\* send_message: message = {'timestamp': ..., 'type': message_type, 'data': data}
Message(n, message_type) == [timestamp |-> n, type |-> message_type, data |-> <<>>]

\* the message type the BLE thread sends after a batch (the mailbox never
\* looks at the type; the timestamp tells two messages apart)
MessageTypes == {"data_update"}

\* the FileMessenger operations each thread calls
ThreadOps(t) ==
    IF t = "ble" THEN {"send_message", "update_status", "save_data_batch"}
    ELSE IF t = "mock" THEN {"save_data_batch"}
    ELSE {"get_message", "get_status", "get_latest_data"}

\* the arguments of the n-th call, made by thread t
Args(t, op, n) ==
    IF op = "send_message" THEN {Message(n, ty) : ty \in MessageTypes}
    ELSE IF op = "update_status" THEN {StatusConnected(n), DefaultStatus}
    ELSE IF op = "save_data_batch"
    THEN {Batch((n - 1) * batch_size + 1, IF t = "mock" THEN 1 ELSE batch_size)}
    ELSE IF op = "get_latest_data" THEN {LoadMaxPoints}
    ELSE {<<>>}

\* update_status writing to self.message_file
ChannelOfCopied(op) ==
    IF op \in {"send_message", "get_message", "update_status"} THEN "message"
    ELSE IF op = "get_status" THEN "status"
    ELSE "data"

\* the channel file an operation opens: self.message_file, self.status_file
\* or self.data_file
ChannelOf(op) ==
    IF op \in {"send_message", "get_message"} THEN "message"
    ELSE IF op \in {"update_status", "get_status"} THEN "status"
    ELSE "data"

FileOf(ch) ==
    IF ch = "message" THEN message_file
    ELSE IF ch = "status" THEN status_file
    ELSE data_file

\* the file system after channel file ch has become f
SetFile(ch, f) ==
    /\ message_file' = IF ch = "message" THEN f ELSE message_file
    /\ status_file' = IF ch = "status" THEN f ELSE status_file
    /\ data_file' = IF ch = "data" THEN f ELSE data_file

\* threading.Lock.acquire that never blocks
LockAvailableAlways(l, t) == TRUE

\* `with self.lock:` enters when the lock is free; threading.Lock is not
\* reentrant, so the holder itself would block too
LockAvailable(l, t) == l = "free"

\* lock.release() placed after the try block, skipped by an exception
LockAfterExitNoFinally(t, raised) == IF raised THEN t ELSE "free"

\* leaving `with self.lock:` releases the lock on return and on exception
LockAfterExit(t, raised) == "free"

\* the first file system call of an operation: the writers open for writing,
\* the others test os.path.exists
FirstPc(op) ==
    IF op \in {"send_message", "update_status"} THEN "open_w" ELSE "exists"

\* what a getter returns when the file is missing or an exception is caught
Missed(op) == IF op = "get_status" THEN DefaultStatus ELSE <<>>

\* what a getter holds after json.load succeeded
Loaded(op, file, arg) ==
    IF op = "get_message" THEN <<file.content>>
    ELSE IF op = "get_status" THEN file.content
    ELSE get_latest_data(file, arg)

\* every getter deleting the file it has read
PcAfterLoadRemoving(op) == IF op = "save_data_batch" THEN "open_w" ELSE "remove"

\* after json.load: save_data_batch goes on to write, get_message to
\* os.remove, get_status and get_latest_data return
PcAfterLoad(op) ==
    IF op = "save_data_batch" THEN "open_w"
    ELSE IF op = "get_message" THEN "remove"
    ELSE "release"

\* os.remove that leaves the file in place
RemovedKept(file) == file

\* os.remove(self.message_file)
Removed(file) == [exists |-> FALSE, content |-> <<>>]

\* open(file, 'w'): the file exists and is empty
Truncated(file) == [exists |-> TRUE, content |-> <<>>]

\* the object json.dump writes
Dumped(op, existing_data, arg) ==
    IF op = "save_data_batch" THEN Trim(existing_data \o arg, LogCap) ELSE arg

\* the program counters at which a thread is inside `with self.lock:`
CsPcs == {"exists", "read", "remove", "open_w", "dump", "release"}

\* the program counters at which the next step is a file system call
IoPcs == {"exists", "read", "remove", "open_w", "dump"}

InitMessenger ==
    /\ stream = <<>>
    /\ DecoderConstructed
    /\ RingConstructed
    /\ BridgeConstructed
    /\ MessengerConstructed
    /\ mon_acc_total = <<>>
    /\ StatsConstructed
    /\ PanelConstructed
    /\ ProducerConstructed
    /\ PipeConstructed
    /\ MockConstructed

\* thread t calls a FileMessenger operation and reaches `with self.lock:`
Call(t) ==
    /\ th[t].pc = "idle"
    /\ nops < MaxOps
    /\ \E op \in ThreadOps(t) : \E arg \in Args(t, op, nops + 1) :
          th' = [th EXCEPT ![t] =
                    [pc |-> "acquire", op |-> op, arg |-> arg, local |-> <<>>,
                     ret |-> Missed(op), fault |-> FALSE, before |-> <<>>]]
    /\ nops' = nops + 1
    /\ UNCHANGED <<lock, message_file, status_file, corrupt,
                   pending, replaced, status_log, last_drain>>
    /\ UNCHANGED <<mockVars, pipeVars, producerVars, panelVars, statsVars, decoderVars, ringVars, bridgeVars>>

\* what a getter of channel ch would return from the files as they are
Visible(ch) ==
    LET op == IF ch = "message" THEN "get_message"
              ELSE IF ch = "status" THEN "get_status" ELSE "get_latest_data"
    IN  IF FileOf(ch).exists /\ ch \notin corrupt
        THEN Loaded(op, FileOf(ch), LoadMaxPoints)
        ELSE Missed(op)

\* `with self.lock:` is entered (before: what get_latest_data and get_status
\* would return at this moment, a ghost)
Acquire(t) ==
    /\ th[t].pc = "acquire"
    /\ LockAvailable(lock, t)
    /\ lock' = t
    /\ th' = [th EXCEPT ![t].pc = FirstPc(th[t].op),
                        ![t].before = [data |-> Visible("data"),
                                       status |-> Visible("status")]]
    /\ UNCHANGED <<message_file, status_file, corrupt, nops,
                   pending, replaced, status_log, last_drain>>
    /\ UNCHANGED <<mockVars, pipeVars, producerVars, panelVars, statsVars, decoderVars, ringVars, bridgeVars>>

\* `if os.path.exists(file):`
Exists(t) ==
    /\ th[t].pc = "exists"
    /\ LET op == th[t].op
       IN  th' = IF FileOf(ChannelOf(op)).exists
                 THEN [th EXCEPT ![t].pc = "read"]
                 ELSE IF op = "save_data_batch"
                 THEN [th EXCEPT ![t].pc = "open_w", ![t].local = <<>>]
                 ELSE [th EXCEPT ![t].pc = "release", ![t].ret = Missed(op)]
    /\ UNCHANGED <<lock, message_file, status_file, corrupt, nops,
                   pending, replaced, status_log, last_drain>>
    /\ UNCHANGED <<mockVars, pipeVars, producerVars, panelVars, statsVars, decoderVars, ringVars, bridgeVars>>

\* The thread after `with open(file, 'r') as f: ... json.load(f)`. When the
\* load raises, save_data_batch starts from an empty list (its inner
\* `except:`), a getter returns its default.
AfterLoad(t, ok) ==
    LET op == th[t].op
        value == Loaded(op, FileOf(ChannelOf(op)), th[t].arg)
    IN  IF op = "save_data_batch"
        THEN [th EXCEPT ![t].pc = "open_w",
                        ![t].local = IF ok THEN FileOf(ChannelOf(op)).content ELSE <<>>]
        ELSE IF ok
        THEN [th EXCEPT ![t].pc = PcAfterLoad(op), ![t].local = value, ![t].ret = value]
        ELSE [th EXCEPT ![t].pc = "release", ![t].ret = Missed(op)]

\* open for reading and json.load; a file that does not hold one JSON
\* document makes json.load raise
Read(t) ==
    /\ th[t].pc = "read"
    /\ th' = AfterLoad(t, ChannelOf(th[t].op) \notin corrupt)
    /\ UNCHANGED <<lock, message_file, status_file, corrupt, nops,
                   pending, replaced, status_log, last_drain>>
    /\ UNCHANGED <<mockVars, pipeVars, producerVars, panelVars, statsVars, decoderVars, ringVars, bridgeVars>>

\* os.remove(self.message_file); return message
Remove(t) ==
    /\ th[t].pc = "remove"
    /\ SetFile(ChannelOf(th[t].op), Removed(FileOf(ChannelOf(th[t].op))))
    /\ corrupt' = corrupt
    /\ th' = [th EXCEPT ![t].pc = "release", ![t].ret = th[t].local]
    /\ UNCHANGED <<lock, nops, pending, replaced, status_log, last_drain>>
    /\ UNCHANGED <<mockVars, pipeVars, producerVars, panelVars, statsVars, decoderVars, ringVars, published, result>>

\* `with open(file, 'w') as f:` truncates the file
OpenWrite(t) ==
    /\ th[t].pc = "open_w"
    /\ SetFile(ChannelOf(th[t].op), Truncated(FileOf(ChannelOf(th[t].op))))
    /\ corrupt' = corrupt \cup {ChannelOf(th[t].op)}
    /\ th' = [th EXCEPT ![t].pc = "dump"]
    /\ UNCHANGED <<lock, nops, pending, replaced, status_log, last_drain>>
    /\ UNCHANGED <<mockVars, pipeVars, producerVars, panelVars, statsVars, decoderVars, ringVars, published, result>>

\* json.dump(obj, f) and the close of the file
Dump(t) ==
    /\ th[t].pc = "dump"
    /\ LET op == th[t].op
       IN  /\ SetFile(ChannelOf(op),
                      [exists |-> TRUE, content |-> Dumped(op, th[t].local, th[t].arg)])
           /\ corrupt' = corrupt \ {ChannelOf(op)}
           /\ published' = IF op = "save_data_batch"
                           THEN published \o th[t].arg ELSE published
    /\ th' = [th EXCEPT ![t].pc = "release"]
    /\ UNCHANGED <<lock, nops, pending, replaced, status_log, last_drain>>
    /\ UNCHANGED <<mockVars, pipeVars, producerVars, panelVars, statsVars, decoderVars, ringVars, result>>

\* The `with self.lock:` block is left and the operation returns. The ghost
\* channel values follow the operations that completed without an exception.
Release(t) ==
    /\ th[t].pc = "release"
    /\ lock' = LockAfterExit(t, th[t].fault)
    /\ th' = [th EXCEPT ![t] = ThreadIdle]
    /\ LET op == th[t].op
           done == ~th[t].fault
       IN  /\ pending' = IF done /\ op = "send_message" THEN <<th[t].arg>>
                         ELSE IF done /\ op = "get_message" /\ th[t].ret # <<>> THEN <<>>
                         ELSE pending
           /\ replaced' = IF done /\ op = "send_message"
                          THEN replaced \cup {pending[j] : j \in 1 .. Len(pending)}
                          ELSE replaced
           /\ status_log' = IF done /\ op = "update_status"
                            THEN Append(status_log, th[t].arg) ELSE status_log
           /\ last_drain' = IF done /\ op = "save_data_batch" THEN <<>>
                            ELSE IF done /\ op = "get_latest_data"
                            THEN <<[arg |-> th[t].arg, ret |-> th[t].ret]>>
                            ELSE last_drain
    /\ UNCHANGED <<message_file, status_file, corrupt, nops>>
    /\ UNCHANGED <<mockVars, pipeVars, producerVars, panelVars, statsVars, decoderVars, ringVars, bridgeVars>>

NextMessenger ==
    \E t \in Threads :
        \/ Call(t) \/ Acquire(t) \/ Exists(t) \/ Read(t) \/ Remove(t)
        \/ OpenWrite(t) \/ Dump(t) \/ Release(t)

\* the bridge with no I/O fault
SpecMessenger == InitMessenger /\ [][NextMessenger]_vars

\* open or json.load raises while the file is being read
ReadFault(t) ==
    /\ th[t].pc = "read"
    /\ th' = [AfterLoad(t, FALSE) EXCEPT ![t].fault = TRUE]
    /\ UNCHANGED <<lock, message_file, status_file, corrupt, nops,
                   pending, replaced, status_log, last_drain>>
    /\ UNCHANGED <<mockVars, pipeVars, producerVars, panelVars, statsVars, decoderVars, ringVars, bridgeVars>>

\* os.remove raises: get_message prints the error and returns None
RemoveFault(t) ==
    /\ th[t].pc = "remove"
    /\ th' = [th EXCEPT ![t].pc = "release", ![t].ret = Missed(th[t].op),
                        ![t].fault = TRUE]
    /\ UNCHANGED <<lock, message_file, status_file, corrupt, nops,
                   pending, replaced, status_log, last_drain>>
    /\ UNCHANGED <<mockVars, pipeVars, producerVars, panelVars, statsVars, decoderVars, ringVars, bridgeVars>>

\* open(file, 'w') raises: the file is as it was, the error is printed
OpenWriteFault(t) ==
    /\ th[t].pc = "open_w"
    /\ th' = [th EXCEPT ![t].pc = "release", ![t].fault = TRUE]
    /\ UNCHANGED <<lock, message_file, status_file, corrupt, nops,
                   pending, replaced, status_log, last_drain>>
    /\ UNCHANGED <<mockVars, pipeVars, producerVars, panelVars, statsVars, decoderVars, ringVars, bridgeVars>>

\* json.dump or the close of the file raises after the file was truncated: the
\* file is left without a complete JSON document, the error is printed
DumpFault(t) ==
    /\ th[t].pc = "dump"
    /\ th' = [th EXCEPT ![t].pc = "release", ![t].fault = TRUE]
    /\ UNCHANGED <<lock, message_file, status_file, corrupt, nops,
                   pending, replaced, status_log, last_drain>>
    /\ UNCHANGED <<mockVars, pipeVars, producerVars, panelVars, statsVars, decoderVars, ringVars, bridgeVars>>

\* the steps of thread t inside `with self.lock:`
InLock(t) ==
    \/ Exists(t) \/ Read(t) \/ Remove(t) \/ OpenWrite(t) \/ Dump(t)
    \/ ReadFault(t) \/ RemoveFault(t) \/ OpenWriteFault(t) \/ DumpFault(t)
    \/ Release(t)

\* a call in a run with I/O faults
CallUnderFaults(t) == nops < MaxFaultOps /\ Call(t)

NextMessengerFaults ==
    \E t \in Threads :
        \/ CallUnderFaults(t) \/ Acquire(t) \/ Exists(t) \/ Read(t) \/ Remove(t)
        \/ OpenWrite(t) \/ Dump(t) \/ Release(t)
        \/ ReadFault(t) \/ RemoveFault(t) \/ OpenWriteFault(t) \/ DumpFault(t)

\* the bridge with I/O faults
SpecMessengerFaults == InitMessenger /\ [][NextMessengerFaults]_vars

\* the steps thread t takes once it has called an operation
InCall(t) == Acquire(t) \/ InLock(t)

\* Every thread is scheduled: a thread whose next step stays possible takes
\* it. (The lock is not handed out in any order; a waiting thread is only
\* assumed to enter once the lock stays free.)
\* a call in the runs checked for progress
CallFair(t) == nops < MaxFairOps /\ Call(t)

NextMessengerFair ==
    \E t \in Threads :
        \/ CallFair(t) \/ Acquire(t) \/ Exists(t) \/ Read(t) \/ Remove(t)
        \/ OpenWrite(t) \/ Dump(t) \/ Release(t)
        \/ ReadFault(t) \/ RemoveFault(t) \/ OpenWriteFault(t) \/ DumpFault(t)

FairMessenger ==
    /\ InitMessenger /\ [][NextMessengerFair]_vars
    /\ \A t \in Threads : WF_vars(InCall(t))

-----------------------------------------------------------------------------
(* Rolling statistics of update_plot (wt901_live_graph_v2.py)                *)
(*                                                                         *)
(* Magnitudes are integers in units of 1/100 g. A float computed from them *)
(* is held exactly, as a reduced fraction n/d (floating-point rounding is  *)
(* not modelled); np.std, whose value is irrational in general, is held in *)
(* fixed point, rounded down to 1/30 of a unit.                            *)

RECURSIVE Gcd(_, _)
Gcd(a, b) == IF b = 0 THEN a ELSE Gcd(b, a % b)

Abs(a) == IF a < 0 THEN -a ELSE a

\* the fraction n/d (d > 0) in lowest terms
Frac(n, d) == LET g == Gcd(Abs(n), d) IN [n |-> n \div g, d |-> d \div g]

FMul(a, b) == Frac(a.n * b.n, a.d * b.d)

FAdd(a, b) ==
    LET g == Gcd(a.d, b.d)
    IN  Frac(a.n * (b.d \div g) + b.n * (a.d \div g), (a.d \div g) * b.d)

FSub(a, b) == FAdd(a, [n |-> -b.n, d |-> b.d])

\* `win_size = 30`
win_size == 30
\* `window = min(100, len(self.acc_total))`
PlotWindow == 100
\* `alpha = 0.2`
alpha == Frac(1, 5)

RECURSIVE SumSeq(_)
SumSeq(s) == IF s = <<>> THEN 0 ELSE Head(s) + SumSeq(Tail(s))

RECURSIVE SumSq(_)
SumSq(s) == IF s = <<>> THEN 0 ELSE Head(s) * Head(s) + SumSq(Tail(s))

\* the integer square root of q, searched in lo .. hi (lo*lo <= q < (hi+1)*(hi+1))
RECURSIVE IsqrtIn(_, _, _)
IsqrtIn(q, lo, hi) ==
    IF lo = hi THEN lo
    ELSE LET mid == (lo + hi + 1) \div 2
         IN  IF mid * mid <= q THEN IsqrtIn(q, mid, hi) ELSE IsqrtIn(q, lo, mid - 1)

\* np.mean(win)
np_mean(win) == Frac(SumSeq(win), Len(win))

\* np.max(win)
np_max(win) == CHOOSE m \in {win[j] : j \in 1 .. Len(win)} : \A j \in 1 .. Len(win) : win[j] <= m

\* np.std(win), the population standard deviation sqrt(n*sum(x^2) - sum(x)^2) / n
np_std(win) ==
    LET n == Len(win)
        q == n * SumSq(win) - SumSeq(win) * SumSeq(win)
    IN  Frac(IsqrtIn(q, 0, 46340), n)

\* the window shifted by one sample
WinAtShifted(list, k) == Slice(list, k + 1, k + 1 + win_size)

\* `win = acc_list[i:i+win_size]`
WinAt(list, k) == Slice(list, k, k + win_size)

\* range(window - win_size)
RangeLenShort(window) == IF window - win_size > 0 THEN window - win_size ELSE 0

\* the number of iterations of `for i in range(window - win_size + 1)`
RangeLen(window) == IF window - win_size + 1 > 0 THEN window - win_size + 1 ELSE 0

\* the weights of the new value and of the previous average exchanged
EmaStepSwapped(prev, x) == FAdd(FMul(FSub(Frac(1, 1), alpha), x), FMul(alpha, prev))

\* `alpha * mean + (1 - alpha) * ema_mean`
EmaStep(prev, x) == FAdd(FMul(alpha, x), FMul(FSub(Frac(1, 1), alpha), prev))

\* `if ema is None: ema = x  else: ema = alpha * x + (1 - alpha) * ema`
EmaNext(e, x) == IF e = <<>> THEN <<x>> ELSE <<EmaStep(e[1], x)>>

\* `list(self.acc_total)[-window:]` with window = min(100, len(self.acc_total))
RecentOf(buf) ==
    NegSliceFrom(buf, IF Len(buf) < PlotWindow THEN Len(buf) ELSE PlotWindow)

\* The magnitudes the buffers are filled with, in 1/100 g: a constant level, a
\* level alternating between two values, a ramp, a single spike, a sawtooth.
Patterns == {"const", "alt", "ramp", "spike", "saw"}

Magnitude(p, j) ==
    IF p = "const" THEN 101
    ELSE IF p = "alt" THEN (IF j % 2 = 0 THEN 100 ELSE 104)
    ELSE IF p = "ramp" THEN 100 + j
    ELSE IF p = "spike" THEN (IF j = 31 THEN 130 ELSE 101)
    ELSE 100 + ((7 * j) % 11)

\* the buffer lengths: empty, one sample, one short of a window, a window and more
BufferLengths == {0, 1, win_size - 1} \cup (win_size .. MaxLen)

Buffers == { [j \in 1 .. len |-> Magnitude(p, j)] : p \in Patterns, len \in BufferLengths }

InitStats ==
    /\ stream = <<>>
    /\ DecoderConstructed
    /\ RingConstructed
    /\ BridgeConstructed
    /\ MessengerConstructed
    /\ mon_acc_total \in Buffers
    /\ StatsConstructed
    /\ PanelConstructed
    /\ ProducerConstructed
    /\ PipeConstructed
    /\ MockConstructed

\* load_latest_data between two ticks: the buffer is cleared and refilled
\* from the log
LoadLatest ==
    /\ stat_pc = "idle"
    /\ tick_done
    /\ mon_acc_total' \in Buffers
    /\ tick_done' = FALSE
    /\ UNCHANGED <<stat_pc, acc_list, idx, loop_count, means, peaks, stds,
                   x_vals, ema_val, raw_vals, lines>>
    /\ UNCHANGED <<mockVars, pipeVars, producerVars, panelVars, decoderVars, ringVars, bridgeVars, messengerVars>>

\* update_plot reaches `# --- ROLLING MEAN & PEAK ---`
MeanPeakBegin ==
    /\ stat_pc = "idle"
    /\ ~tick_done
    /\ IF Len(mon_acc_total) > 0
       THEN /\ acc_list' = RecentOf(mon_acc_total)
            /\ loop_count' = RangeLen(Len(RecentOf(mon_acc_total)))
            /\ means' = <<>> /\ peaks' = <<>> /\ x_vals' = <<>>
            /\ ema_val' = <<>> /\ raw_vals' = <<>>
            /\ idx' = 0
            /\ stat_pc' = "mean_loop"
       ELSE /\ stat_pc' = "std_begin"
            /\ UNCHANGED <<acc_list, loop_count, means, peaks, x_vals, ema_val, raw_vals, idx>>
    /\ UNCHANGED <<mon_acc_total, stds, lines, tick_done>>
    /\ UNCHANGED <<mockVars, pipeVars, producerVars, panelVars, decoderVars, ringVars, bridgeVars, messengerVars>>

\* one iteration of the mean and peak loop
MeanPeakIter ==
    /\ stat_pc = "mean_loop"
    /\ idx < loop_count
    /\ LET win == WinAt(acc_list, idx)
           mean == np_mean(win)
           peak == np_max(win)
           ema_mean == EmaNext(ema_val, mean)
       IN  /\ ema_val' = ema_mean
           /\ means' = Append(means, ema_mean[1])
           /\ peaks' = Append(peaks, peak)
           /\ x_vals' = Append(x_vals, idx + (win_size \div 2))
           /\ raw_vals' = Append(raw_vals, mean)
    /\ idx' = idx + 1
    /\ UNCHANGED <<mon_acc_total, stat_pc, acc_list, loop_count, stds, lines, tick_done>>
    /\ UNCHANGED <<mockVars, pipeVars, producerVars, panelVars, decoderVars, ringVars, bridgeVars, messengerVars>>

\* the loop ends: self.lines['mean'].set_data, self.lines['peak'].set_data
MeanPeakEnd ==
    /\ stat_pc = "mean_loop"
    /\ idx >= loop_count
    /\ lines' = [lines EXCEPT !.mean = [x |-> x_vals, y |-> means],
                              !.peak = [x |-> x_vals, y |-> peaks]]
    /\ stat_pc' = "std_begin"
    /\ UNCHANGED <<mon_acc_total, acc_list, idx, loop_count, means, peaks, stds,
                   x_vals, ema_val, raw_vals, tick_done>>
    /\ UNCHANGED <<mockVars, pipeVars, producerVars, panelVars, decoderVars, ringVars, bridgeVars, messengerVars>>

\* update_plot reaches `# --- ROLLING STD DEV ---`; with an empty buffer the
\* tick ends here
StdBegin ==
    /\ stat_pc = "std_begin"
    /\ IF Len(mon_acc_total) > 0
       THEN /\ acc_list' = RecentOf(mon_acc_total)
            /\ loop_count' = RangeLen(Len(RecentOf(mon_acc_total)))
            /\ stds' = <<>> /\ x_vals' = <<>>
            /\ ema_val' = <<>> /\ raw_vals' = <<>>
            /\ idx' = 0
            /\ stat_pc' = "std_loop"
            /\ UNCHANGED tick_done
       ELSE /\ stat_pc' = "idle"
            /\ tick_done' = TRUE
            /\ UNCHANGED <<acc_list, loop_count, stds, x_vals, ema_val, raw_vals, idx>>
    /\ UNCHANGED <<mon_acc_total, means, peaks, lines>>
    /\ UNCHANGED <<mockVars, pipeVars, producerVars, panelVars, decoderVars, ringVars, bridgeVars, messengerVars>>

\* one iteration of the std loop
StdIter ==
    /\ stat_pc = "std_loop"
    /\ idx < loop_count
    /\ LET win == WinAt(acc_list, idx)
           std == np_std(win)
           ema_std == EmaNext(ema_val, std)
       IN  /\ ema_val' = ema_std
           /\ stds' = Append(stds, ema_std[1])
           /\ x_vals' = Append(x_vals, idx + (win_size \div 2))
           /\ raw_vals' = Append(raw_vals, std)
    /\ idx' = idx + 1
    /\ UNCHANGED <<mon_acc_total, stat_pc, acc_list, loop_count, means, peaks, lines, tick_done>>
    /\ UNCHANGED <<mockVars, pipeVars, producerVars, panelVars, decoderVars, ringVars, bridgeVars, messengerVars>>

\* the loop ends: self.lines['std'].set_data, and the tick goes on to return
StdEnd ==
    /\ stat_pc = "std_loop"
    /\ idx >= loop_count
    /\ lines' = [lines EXCEPT !.std = [x |-> x_vals, y |-> stds]]
    /\ stat_pc' = "idle"
    /\ tick_done' = TRUE
    /\ UNCHANGED <<mon_acc_total, acc_list, idx, loop_count, means, peaks, stds,
                   x_vals, ema_val, raw_vals>>
    /\ UNCHANGED <<mockVars, pipeVars, producerVars, panelVars, decoderVars, ringVars, bridgeVars, messengerVars>>

NextStats ==
    \/ LoadLatest \/ MeanPeakBegin \/ MeanPeakIter \/ MeanPeakEnd
    \/ StdBegin \/ StdIter \/ StdEnd

SpecStats == InitStats /\ [][NextStats]_vars

-----------------------------------------------------------------------------
(* Status panel: main's load of the historical baseline, and the current   *)
(* triple and the classification of update_lower_right                     *)
(* (wt901_live_graph_v2.py). Magnitudes, means, baselines and thresholds    *)
(* are in units of 1/100 g: 1.23 g is 123. The packet counter text is      *)
(* outside the model.                                                      *)

\* a < b for two fractions
FLess(a, b) == a.n * b.d < b.n * a.d

\* the integer nearest to n/d (d > 0), an exact tie going to the even one
RoundHalfEven(n, d) ==
    LET q == n \div d
        r == n % d
    IN  IF 2 * r < d THEN q
        ELSE IF 2 * r > d THEN q + 1
        ELSE IF q % 2 = 0 THEN q ELSE q + 1

\* the f-string formats `{x:.3f}` and `{x:.1f}`: x times scale, to the nearest
\* integer (a value in 1/100 g times 10 is in 1/1000 g)
Fmt(x, scale) == RoundHalfEven(x.n * scale, x.d)

\* `recent_acc = list(self.acc_total)[-30:]`
CurrentWindow == 30

\* the last 10 samples, the window of the queue-based monitor
RecentAccTen(buf) == NegSliceFrom(buf, 10)

RecentAcc(buf) == NegSliceFrom(buf, CurrentWindow)

\* vibration_log.csv as load_baseline_data finds it: absent, present but not
\* readable as the expected table, or readable
CsvFiles ==
    { [exists |-> FALSE, readable |-> FALSE, Mean_Acc_g |-> 0],
      [exists |-> TRUE, readable |-> FALSE, Mean_Acc_g |-> 0],
      [exists |-> TRUE, readable |-> TRUE, Mean_Acc_g |-> 125] }

\* load_baseline_data without its `except Exception`
load_baseline_data_Uncaught(csv) ==
    IF csv.exists
    THEN IF csv.readable
         THEN [baseline_data |-> <<csv.Mean_Acc_g>>, raised |-> FALSE]
         ELSE [baseline_data |-> <<>>, raised |-> TRUE]
    ELSE [baseline_data |-> <<>>, raised |-> FALSE]

\* load_baseline_data: the value left in self.baseline_data, and whether an
\* exception leaves the method
load_baseline_data(csv) ==
    IF csv.exists
    THEN IF csv.readable
         THEN [baseline_data |-> <<csv.Mean_Acc_g>>, raised |-> FALSE]
         ELSE [baseline_data |-> <<>>, raised |-> FALSE]
    ELSE [baseline_data |-> <<>>, raised |-> FALSE]

\* `baseline = 1.01` and the label of `f"vs Idle (1.01g): ..."`
Baseline(current_mean) == [name |-> "Idle", value |-> Frac(101, 1)]

\* an alert that stays on until the mean is back at the cruise level
AlertLatched(current_mean) ==
    IF FLess(Frac(123, 1), current_mean)
       \/ (texts.alert.color = "red" /\ FLess(Frac(103, 1), current_mean))
    THEN [text |-> <<"ALERT: Vibration High!">>, color |-> "red"]
    ELSE IF FLess(Frac(103, 1), current_mean)
    THEN [text |-> <<"Warning: Above Cruise">>, color |-> "orange"]
    ELSE [text |-> <<>>, color |-> "black"]

\* the comparisons with 1.03 and 1.23 not strict
AlertNotStrict(current_mean) ==
    IF ~FLess(current_mean, Frac(123, 1))
    THEN [text |-> <<"ALERT: Vibration High!">>, color |-> "red"]
    ELSE IF ~FLess(current_mean, Frac(103, 1))
    THEN [text |-> <<"Warning: Above Cruise">>, color |-> "orange"]
    ELSE [text |-> <<>>, color |-> "black"]

\* `# Alert logic`: `if current_mean > 1.23 ... elif current_mean > 1.03 ... else`
Alert(current_mean) ==
    IF FLess(Frac(123, 1), current_mean)
    THEN [text |-> <<"ALERT: Vibration High!">>, color |-> "red"]
    ELSE IF FLess(Frac(103, 1), current_mean)
    THEN [text |-> <<"Warning: Above Cruise">>, color |-> "orange"]
    ELSE [text |-> <<>>, color |-> "black"]

\* `self.device_name or 'N/A'`
OrNA(v) == IF v = <<>> THEN <<"N/A">> ELSE v

\* update_lower_right with the buffer buf, the fetched status st and
\* self.show_status = show: the texts it leaves on the panel
update_lower_right(buf, st, show) ==
    IF show
    THEN IF Len(buf) > 0
         THEN LET recent_acc == RecentAcc(buf)
                  current_mean == np_mean(recent_acc)
                  current_peak == np_max(recent_acc)
                  current_std == np_std(recent_acc)
                  baseline == Baseline(current_mean)
                  diff == FSub(current_mean, baseline.value)
                  diff_percent == FMul(Frac(diff.n * baseline.value.d,
                                            diff.d * baseline.value.n), Frac(100, 1))
                  alert == Alert(current_mean)
              IN  /\ texts' = [status_text |-> <<>>,
                               current_val |-> <<Fmt(current_mean, 10),
                                                 Fmt(Frac(current_peak, 1), 10)>>,
                               baseline_diff |-> <<baseline.name, Fmt(diff, 10),
                                                   Fmt(diff_percent, 10)>>,
                               alert |-> alert,
                               device_info |-> <<OrNA(st.device_name), OrNA(st.device_mac)>>,
                               visible |-> TRUE]
                  /\ evals' = <<[L |-> Len(buf), n |-> Len(recent_acc),
                                  mean |-> current_mean, peak |-> current_peak,
                                  std |-> current_std, baseline |-> baseline,
                                  diff |-> diff, alert |-> alert,
                                  again |-> /\ evals # <<>>
                                            /\ evals[1].mean = current_mean
                                            /\ evals[1].L # Len(buf)
                                            /\ mon_status # st]>>
         ELSE /\ texts' = [status_text |-> <<"Waiting for connection...">>,
                           current_val |-> <<"Click 'Scan BLE Devices' to start">>,
                           baseline_diff |-> <<>>,
                           alert |-> [text |-> <<>>, color |-> "black"],
                           device_info |-> <<>>,
                           visible |-> TRUE]
              /\ UNCHANGED evals
    ELSE /\ texts' = [texts EXCEPT !.visible = FALSE]
         /\ UNCHANGED evals

\* The buffers load_latest_data leaves for the panel, in 1/100 g, as <<level,
\* length, first sample, last sample>>: every sample is at the level but the
\* first and the last. They put the mean of the last 30 at and around 1.03,
\* 1.06 and 1.23, with one sample, fewer than 30, 30 and more than 30 samples.
PanelCases ==
    { <<100, 1, 100, 100>>, <<100, 29, 100, 100>>,
      <<103, 1, 103, 103>>, <<103, 30, 103, 103>>, <<103, 31, 130, 103>>,
      <<103, 30, 103, 104>>,
      <<106, 1, 106, 106>>, <<106, 30, 106, 105>>, <<106, 31, 100, 106>>,
      <<123, 1, 123, 123>>, <<123, 30, 123, 123>>, <<123, 30, 123, 124>>,
      <<124, 1, 124, 124>>, <<101, 30, 130, 101>>, <<101, 31, 130, 101>>,
      <<110, 2, 100, 110>>, <<110, 1, 110, 110>> }

PanelBuffers ==
    {<<>>} \cup
    { [j \in 1 .. c[2] |-> IF j = c[2] THEN c[4] ELSE IF j = 1 THEN c[3] ELSE c[1]] :
        c \in PanelCases }

\* the status snapshots update_plot fetches
PanelStatuses ==
    { [connected |-> FALSE, device_name |-> <<>>, device_mac |-> <<>>],
      [connected |-> TRUE, device_name |-> <<"WT901BLE68">>, device_mac |-> <<"AA:BB">>] }

InitPanel ==
    /\ stream = <<>>
    /\ DecoderConstructed
    /\ RingConstructed
    /\ BridgeConstructed
    /\ MessengerConstructed
    /\ mon_acc_total = <<>>
    /\ StatsConstructed
    /\ PanelConstructed
    /\ ProducerConstructed
    /\ PipeConstructed
    /\ MockConstructed

\* main(): load_baseline_data, setup_plot, and the first update_lower_right
MainStart ==
    /\ main_pc = "constructed"
    /\ \E csv \in CsvFiles :
          LET loaded == load_baseline_data(csv)
          IN  /\ csv_found' = csv
              /\ baseline_data' = loaded.baseline_data
              /\ IF loaded.raised
                 THEN main_pc' = "raised" /\ UNCHANGED <<texts, evals>>
                 ELSE main_pc' = "running"
                      /\ update_lower_right(mon_acc_total, mon_status, show_status)
    /\ UNCHANGED <<show_status, mon_status, last_logged>>
    /\ UNCHANGED <<mockVars, pipeVars, producerVars, decoderVars, ringVars, bridgeVars, messengerVars, statsVars>>

\* an update_plot tick as the panel sees it: load_latest_data refills the
\* buffer, get_status is fetched, and the tick ends in update_lower_right
PanelTick ==
    /\ main_pc = "running"
    /\ \E buf \in PanelBuffers, st \in PanelStatuses :
          /\ mon_acc_total' = buf
          /\ mon_status' = st
          /\ update_lower_right(buf, st, show_status)
    /\ UNCHANGED <<main_pc, csv_found, baseline_data, show_status, last_logged>>
    /\ UNCHANGED <<stat_pc, acc_list, idx, loop_count, means, peaks, stds,
                   x_vals, ema_val, raw_vals, lines, tick_done>>
    /\ UNCHANGED <<mockVars, pipeVars, producerVars, decoderVars, ringVars, bridgeVars, messengerVars>>

\* on_toggle_status: the view is switched and the panel updated at once
OnToggleStatus ==
    /\ main_pc = "running"
    /\ show_status' = ~show_status
    /\ update_lower_right(mon_acc_total, mon_status, ~show_status)
    /\ UNCHANGED <<main_pc, csv_found, baseline_data, mon_status, last_logged>>
    /\ UNCHANGED <<mockVars, pipeVars, producerVars, decoderVars, ringVars, bridgeVars, messengerVars, statsVars>>

NextPanel == MainStart \/ PanelTick \/ OnToggleStatus

SpecPanel == InitPanel /\ [][NextPanel]_vars

\* log_vibration_data with comparisons that are not strict
log_vibration_data_NotStrict(mean_acc) ==
    LET status == IF ~FLess(mean_acc, Frac(123, 1)) THEN "WARNING"
                  ELSE IF ~FLess(mean_acc, Frac(103, 1)) THEN "ATTENTION"
                  ELSE "Normal"
        baseline == Frac(101, 1)
        deviation == FSub(mean_acc, baseline)
    IN  [Mean_Acc_g |-> Fmt(mean_acc, 10), Status |-> status,
         Baseline_g |-> Fmt(baseline, 1), Deviation_g |-> Fmt(deviation, 10),
         mean |-> mean_acc]

\* log_vibration_data(mean_acc, ...): the row it appends to
\* vibration_log.csv, as far as the mean decides it (`if mean_acc > 1.23 ...
\* elif mean_acc > 1.03 ... else`, `baseline = 1.01`, the formats .3f and
\* .2f), with the mean itself as a ghost field
log_vibration_data(mean_acc) ==
    LET status == IF FLess(Frac(123, 1), mean_acc) THEN "WARNING"
                  ELSE IF FLess(Frac(103, 1), mean_acc) THEN "ATTENTION"
                  ELSE "Normal"
        baseline == Frac(101, 1)
        deviation == FSub(mean_acc, baseline)
    IN  [Mean_Acc_g |-> Fmt(mean_acc, 10), Status |-> status,
         Baseline_g |-> Fmt(baseline, 1), Deviation_g |-> Fmt(deviation, 10),
         mean |-> mean_acc]

\* on_log_data_point and the dialog's submit: the mean of the last 30 samples
\* of the buffer as it is, handed to log_vibration_data
OnLogDataPoint ==
    /\ main_pc = "running"
    /\ Len(mon_acc_total) > 0
    /\ last_logged' = <<log_vibration_data(np_mean(RecentAcc(mon_acc_total)))>>
    /\ UNCHANGED <<main_pc, csv_found, baseline_data, show_status, mon_status, texts, evals>>
    /\ UNCHANGED <<mon_acc_total, stat_pc, acc_list, idx, loop_count, means, peaks, stds,
                   x_vals, ema_val, raw_vals, lines, tick_done>>
    /\ UNCHANGED <<mockVars, pipeVars, producerVars, decoderVars, ringVars, bridgeVars, messengerVars>>

NextLogging == MainStart \/ PanelTick \/ OnLogDataPoint

SpecLogging == InitPanel /\ [][NextLogging]_vars

-----------------------------------------------------------------------------
(* Producer life cycle: start_ble_thread / stop_ble_thread of the monitor,   *)
(* and run_ble_loop, connect_to_device and disconnect of the one BLEHandler  *)
(* all producer threads share (wt901_live_graph_v2.py). A FileMessenger call *)
(* is one step here (the lock makes it so when no I/O fault occurs); every   *)
(* await of the transport and every assignment to a shared attribute is a    *)
(* step of its own. Timestamps and error texts are left out of the records.  *)

\* the devices a scan has found (self.available_devices)
Devices == {"WT901BLE68"}

\* scan_and_select_device returning None
NoDevice == <<>>

\* the variables of the other components a life cycle step leaves alone
lifeCycleFrame ==
    <<decoderVars, ringVars, statsVars, panelVars, pipeVars, mockVars, result,
      lock, corrupt, th, nops, pending, replaced, status_log, last_drain>>

\* connect_to_device: the status written after a successful connect
StatusOnConnect(device) ==
    [connected |-> TRUE, device_name |-> device, device_mac |-> device,
     connection_time |-> 0]

\* connect_to_device: the status written when the connection failed
StatusOnFailure ==
    [connected |-> FALSE, device_name |-> <<>>, device_mac |-> <<>>, error |-> 0]

\* disconnect: the status written
StatusOnDisconnect == [connected |-> FALSE, device_name |-> <<>>, device_mac |-> <<>>]

\* send_message(message_type, data) as the file it leaves
Event(message_type, payload) ==
    [exists |-> TRUE,
     content |-> [timestamp |-> 0, type |-> message_type, data |-> payload]]

\* `start_cmd = bytes([0xFF, 0xAA, 0x69])`
start_cmd == <<255, 170, 105>>

\* threading.Thread.is_alive: started and not yet finished
IsAlive(t) == t # 0 /\ prod[t].pc \notin {"unstarted", "done"}

\* join() with no timeout returns only when the thread has finished
JoinReturnsWhenDead(alive) == ~alive

\* `self.ble_thread.join(timeout=2)` returns when the thread has finished or
\* when the two seconds are over, whichever comes first
JoinReturns(alive) == TRUE

\* a failed write of the start command treated as a failed connection
AfterWriteFatal(ok) == IF ok THEN "subscribe" ELSE "failed_status"

\* connect_to_device after the `try` of write_gatt_char: on to start_notify
AfterWrite(ok) == "subscribe"

\* the status update and the event of disconnect placed under its `if`
AfterDiscCheckSkipping(connected) == IF connected THEN "disc_await" ELSE "clear_flag"

\* disconnect: `if self.client and self.client.is_connected` awaits
\* client.disconnect() first; update_status follows in either case
AfterDiscCheck(connected) == IF connected THEN "disc_await" ELSE "disc_status"

\* the thread record after a step to pc
At_(r, pc_) == [r EXCEPT !.pc = pc_]

\* the thread record after a transport call
Called(r, op, arg, ok) == [r EXCEPT !.ops = Append(@, [op |-> op, arg |-> arg, ok |-> ok])]

\* the thread record after send_message(message_type, ...)
Sent(r, message_type) == [r EXCEPT !.sent = Append(@, message_type)]

\* the thread record after update_status({'connected': c, ...})
Wrote(r, c) == [r EXCEPT !.wrote = Append(@, c)]

InitProducer ==
    /\ stream = <<>>
    /\ DecoderConstructed
    /\ RingConstructed
    /\ BridgeConstructed
    /\ MessengerConstructed
    /\ mon_acc_total = <<>>
    /\ StatsConstructed
    /\ PanelConstructed
    /\ ProducerConstructed
    /\ PipeConstructed
    /\ MockConstructed

\* start_ble_thread(device): a new thread is made current and started
StartBleThread(device) ==
    /\ ble_thread' = started + 1
    /\ started' = started + 1
    /\ prod' = [prod EXCEPT ![started + 1] = [ProducerUnstarted EXCEPT
                   !.pc = "begin", !.device = <<device>>]]
    /\ stopped' = FALSE

\* what a handler does once the join of stop_ble_thread is over: the rest of
\* stop_ble_thread (the mock device is not started in this component), then
\* start_ble_thread when there is a device
AfterJoin(device) ==
    /\ mock_active' = FALSE
    /\ IF device # NoDevice
       THEN StartBleThread(device[1])
       ELSE /\ UNCHANGED <<ble_thread, started, prod>>
            /\ stopped' = TRUE

\* a handler calls stop_ble_thread: the run flag is cleared, and the thread is
\* joined when it is alive
EnterHandler(device) ==
    /\ gui.pc = "idle"
    /\ is_running' = FALSE
    /\ IF IsAlive(ble_thread)
       THEN /\ gui' = [pc |-> "join", device |-> device]
            /\ stopped' = TRUE
            /\ UNCHANGED <<ble_thread, started, prod, mock_active>>
       ELSE /\ AfterJoin(device)
            /\ UNCHANGED gui
    /\ UNCHANGED <<client, link, handler_device>>
    /\ UNCHANGED <<status_file, message_file, data_file, published, lifeCycleFrame>>

\* on_connect_device: stop_ble_thread, then start_ble_thread(device)
OnConnectDevice(device, limit) ==
    /\ started < limit
    /\ EnterHandler(<<device>>)

\* on_change_device when no device is selected: stop_ble_thread only
OnChangeDevice ==
    /\ started > 0
    /\ EnterHandler(NoDevice)

\* the join of stop_ble_thread returns and the handler runs to its end
JoinReturn ==
    /\ gui.pc = "join"
    /\ JoinReturns(IsAlive(ble_thread))
    /\ AfterJoin(gui.device)
    /\ gui' = [pc |-> "idle", device |-> NoDevice]
    /\ UNCHANGED <<is_running, client, link, handler_device>>
    /\ UNCHANGED <<status_file, message_file, data_file, published, lifeCycleFrame>>

\* a step of thread p that touches no channel file
Local(p, r) ==
    /\ prod' = [prod EXCEPT ![p] = r]
    /\ UNCHANGED <<ble_thread, gui, mock_active, started, stopped>>
    /\ UNCHANGED <<status_file, message_file, data_file, published, lifeCycleFrame>>

\* update_status(status_data) by thread p
UpdateStatus(p, status_data, r) ==
    /\ status_file' = [exists |-> TRUE, content |-> status_data]
    /\ prod' = [prod EXCEPT ![p] = Wrote(r, status_data.connected)]
    /\ UNCHANGED <<is_running, client, link, handler_device, ble_thread, gui,
                   mock_active, started, stopped>>
    /\ UNCHANGED <<message_file, data_file, published, lifeCycleFrame>>

\* send_message(message_type, payload) by thread p
SendMessage(p, message_type, payload, r) ==
    /\ message_file' = Event(message_type, payload)
    /\ prod' = [prod EXCEPT ![p] = Sent(r, message_type)]
    /\ UNCHANGED <<is_running, client, link, handler_device, ble_thread, gui,
                   mock_active, started, stopped>>
    /\ UNCHANGED <<status_file, data_file, published, lifeCycleFrame>>

\* run_ble_loop: `self.is_running = True`
Begin(p) ==
    /\ prod[p].pc = "begin"
    /\ is_running' = TRUE
    /\ Local(p, At_(prod[p], "new_client"))
    /\ UNCHANGED <<client, link, handler_device>>

\* connect_to_device: `self.client = BleakClient(device.address)`
NewClient(p) ==
    /\ prod[p].pc = "new_client"
    /\ client' = p
    /\ link' = [link EXCEPT ![p] = "down"]
    /\ Local(p, At_(prod[p], "connecting"))
    /\ UNCHANGED <<is_running, handler_device>>

\* `await self.client.connect()` returns, or raises
Connect(p) ==
    /\ prod[p].pc = "connecting"
    /\ \E ok \in BOOLEAN :
          /\ link' = [link EXCEPT ![p] = IF ok THEN "up" ELSE "down"]
          /\ Local(p, At_(Called(prod[p], "connect", <<>>, ok),
                          IF ok THEN "set_name" ELSE "failed_status"))
    /\ UNCHANGED <<is_running, client, handler_device>>

\* `self.device_name = device.name or 'Unknown'`, `self.device_mac = device.address`
SetName(p) ==
    /\ prod[p].pc = "set_name"
    /\ handler_device' = prod[p].device
    /\ Local(p, At_(prod[p], "status_connected"))
    /\ UNCHANGED <<is_running, client, link>>

\* update_status({'connected': True, 'device_name': self.device_name, ...})
StatusConnectedStep(p) ==
    /\ prod[p].pc = "status_connected"
    /\ UpdateStatus(p, StatusOnConnect(handler_device), At_(prod[p], "msg_connected"))

\* send_message('connected', {'device_name': self.device_name, ...})
MsgConnected(p) ==
    /\ prod[p].pc = "msg_connected"
    /\ SendMessage(p, "connected", handler_device, At_(prod[p], "write_cmd"))

\* `await self.client.write_gatt_char(WT901_WRITE_CHAR_UUID, start_cmd)` in its
\* own try: a failure is printed
WriteStartCmd(p) ==
    /\ prod[p].pc = "write_cmd"
    /\ \E ok \in BOOLEAN :
          Local(p, At_(Called(prod[p], "write_gatt_char", start_cmd, ok), AfterWrite(ok)))
    /\ UNCHANGED <<is_running, client, link, handler_device>>

\* `await self.client.start_notify(WT901_CHAR_UUID, self.data_handler)` in its
\* own try; connect_to_device returns True and run_ble_loop enters its loop
Subscribe(p) ==
    /\ prod[p].pc = "subscribe"
    /\ \E ok \in BOOLEAN :
          Local(p, [At_(Called(prod[p], "start_notify", <<>>, ok), "loop")
                       EXCEPT !.subscribed = ok])
    /\ UNCHANGED <<is_running, client, link, handler_device>>

\* the `except` of connect_to_device: update_status({'connected': False, ...})
FailedStatus(p) ==
    /\ prod[p].pc = "failed_status"
    /\ UpdateStatus(p, StatusOnFailure, At_(prod[p], "failed_msg"))

\* send_message('connection_failed', {'error': str(e)}); return False
FailedMsg(p) ==
    /\ prod[p].pc = "failed_msg"
    /\ SendMessage(p, "connection_failed", <<>>, At_(prod[p], "else_msg"))

\* run_ble_loop, else branch: send_message('connection_failed', ...)
ElseMsg(p) ==
    /\ prod[p].pc = "else_msg"
    /\ SendMessage(p, "connection_failed", <<>>, At_(prod[p], "disc_check"))

\* `while self.is_running: await asyncio.sleep(0.1)`: a wake-up that finds
\* the flag set sleeps again, one that finds it cleared leaves the loop
LoopWake(p) ==
    /\ prod[p].pc = "loop"
    /\ Local(p, IF is_running THEN prod[p] ELSE At_(prod[p], "disc_check"))
    /\ UNCHANGED <<is_running, client, link, handler_device>>

\* an exception reaches `except Exception` of run_ble_loop
LoopError(p) ==
    /\ prod[p].pc = "loop"
    /\ Local(p, At_(prod[p], "error_msg"))
    /\ UNCHANGED <<is_running, client, link, handler_device>>

\* send_message('error', {'error': str(e)})
ErrorMsg(p) ==
    /\ prod[p].pc = "error_msg"
    /\ SendMessage(p, "error", <<>>, At_(prod[p], "disc_check"))

\* `finally: await self.disconnect()`: the test of self.client
DiscCheck(p) ==
    /\ prod[p].pc = "disc_check"
    /\ LET connected == client # 0 /\ link[client] = "up"
       IN  Local(p, [At_(prod[p], AfterDiscCheck(connected))
                        EXCEPT !.target = IF connected THEN client ELSE 0])
    /\ UNCHANGED <<is_running, client, link, handler_device>>

\* `await self.client.disconnect()` returns
DiscAwait(p) ==
    /\ prod[p].pc = "disc_await"
    /\ link' = [link EXCEPT ![prod[p].target] = "down"]
    /\ Local(p, Called(At_(prod[p], "disc_status"), "disconnect", <<>>, TRUE))
    /\ UNCHANGED <<is_running, client, handler_device>>

\* disconnect: update_status({'connected': False, ...})
DiscStatus(p) ==
    /\ prod[p].pc = "disc_status"
    /\ UpdateStatus(p, StatusOnDisconnect, At_(prod[p], "disc_msg"))

\* disconnect: send_message('disconnected', {})
DiscMsg(p) ==
    /\ prod[p].pc = "disc_msg"
    /\ SendMessage(p, "disconnected", <<>>, At_(prod[p], "clear_flag"))

\* run_ble_loop: `self.is_running = False`, and the thread ends
ClearFlag(p) ==
    /\ prod[p].pc = "clear_flag"
    /\ is_running' = FALSE
    /\ Local(p, At_(prod[p], "done"))
    /\ UNCHANGED <<client, link, handler_device>>

\* the transport loses the connection of the client thread p made
ConnectionLost(p) ==
    /\ link[p] = "up"
    /\ link' = [link EXCEPT ![p] = "lost"]
    /\ UNCHANGED <<is_running, client, handler_device, ble_thread, prod, gui,
                   mock_active, started, stopped>>
    /\ UNCHANGED <<status_file, message_file, data_file, published, lifeCycleFrame>>

\* process_acceleration_data for the sample that fills a batch, called from
\* a notification while p awaits: save_data_batch, send_message('data_update')
BatchComplete(p) ==
    /\ prod[p].pc \in {"loop", "disc_await"}
    /\ prod[p].subscribed
    /\ link[p] = "up"
    /\ Len(published) < MaxBatches * batch_size
    /\ LET data_batch == Batch(Len(published) + 1, batch_size)
       IN  /\ data_file' = [exists |-> TRUE, content |-> SavedContent(data_file, data_batch)]
           /\ published' = published \o data_batch
    /\ message_file' = Event("data_update", <<>>)
    /\ prod' = [prod EXCEPT ![p] = Sent(prod[p], "data_update")]
    /\ UNCHANGED <<is_running, client, link, handler_device, ble_thread, gui,
                   mock_active, started, stopped>>
    /\ UNCHANGED <<status_file, lifeCycleFrame>>

\* the steps of thread p that its own code takes when it is scheduled and the
\* awaited transport call returns
Progress(p) ==
    \/ Begin(p) \/ NewClient(p) \/ Connect(p) \/ SetName(p)
    \/ StatusConnectedStep(p) \/ MsgConnected(p) \/ WriteStartCmd(p) \/ Subscribe(p)
    \/ FailedStatus(p) \/ FailedMsg(p) \/ ElseMsg(p)
    \/ LoopWake(p) \/ ErrorMsg(p)
    \/ DiscCheck(p) \/ DiscAwait(p) \/ DiscStatus(p) \/ DiscMsg(p) \/ ClearFlag(p)

\* the steps of the producer threads and of the transport
ThreadStep ==
    \E p \in Producers :
          \/ Begin(p) \/ NewClient(p) \/ Connect(p) \/ SetName(p)
          \/ StatusConnectedStep(p) \/ MsgConnected(p) \/ WriteStartCmd(p) \/ Subscribe(p)
          \/ FailedStatus(p) \/ FailedMsg(p) \/ ElseMsg(p)
          \/ LoopWake(p) \/ LoopError(p) \/ ErrorMsg(p)
          \/ DiscCheck(p) \/ DiscAwait(p) \/ DiscStatus(p) \/ DiscMsg(p) \/ ClearFlag(p)
          \/ ConnectionLost(p)

\* a run that starts at most MaxStarts producer threads
NextProducer ==
    \/ \E device \in Devices : OnConnectDevice(device, MaxStarts)
    \/ OnChangeDevice
    \/ JoinReturn
    \/ ThreadStep

SpecProducer == InitProducer /\ [][NextProducer]_vars

\* a run in which on_connect_device starts a producer thread again
NextRestart ==
    \/ \E device \in Devices : OnConnectDevice(device, 1 + MaxRestarts)
    \/ OnChangeDevice
    \/ JoinReturn
    \/ ThreadStep

SpecRestart == InitProducer /\ [][NextRestart]_vars

\* a run in which the notifications of a subscribed producer fill batches
NextStreaming ==
    \/ NextProducer
    \/ \E p \in Producers : BatchComplete(p)

\* the scheduler runs every thread that can take a step of its own code, the
\* awaited transport calls return, and the join returns; nothing obliges the
\* transport to fail or to deliver
FairProducer ==
    /\ InitProducer
    /\ [][NextProducer]_vars
    /\ \A p \in Producers : WF_vars(Progress(p))
    /\ WF_vars(JoinReturn)

FairStreaming ==
    /\ InitProducer
    /\ [][NextStreaming]_vars
    /\ \A p \in Producers : WF_vars(Progress(p))
    /\ WF_vars(JoinReturn)

-----------------------------------------------------------------------------
(* Batching producer and polling consumer (wt901_live_graph_v2.py):          *)
(* BLEHandler.process_acceleration_data on one side, the update_plot tick of *)
(* the monitor (feed_test_data, get_message, handle_message,                 *)
(* load_latest_data) on the other. A FileMessenger call is one step (the     *)
(* lock makes it so when no I/O fault occurs); the producer's thread and the *)
(* GUI thread interleave between the steps.                                  *)

\* the variables of the other components a step of this component leaves alone
pipeFrame ==
    <<decoderVars, ringVars, statsVars, panelVars, producerVars, mockVars, result,
      lock, corrupt, th, nops, pending, replaced, status_log, last_drain>>

\* the variables of the consumer
consumerVars ==
    <<mon_packet_count, mon_timestamps, mon_acc_data, mon_buf_total, tick_pc,
      polled, replaying_test, tick_log>>

\* the variables of the BLE handler
handlerVars == <<handler_batch, ble_packet_count, proc_pc, publishes>>

\* `if len(self.data_batch) > self.batch_size`
BatchFullAfter(n) == n > batch_size

\* `if len(self.data_batch) >= self.batch_size`
BatchFull(n) == n >= batch_size

\* process_acceleration_data announcing the batch before it saves it
ProcNextAnnouncing(at) ==
    CASE at = "full" -> "send"
      [] at = "send" -> "save"
      [] at = "save" -> "clear"
      [] at = "clear" -> "idle"

\* the order of the statements under `if len(self.data_batch) >= ...`:
\* save_data_batch, send_message, self.data_batch = []
ProcNext(at) ==
    CASE at = "full" -> "save"
      [] at = "save" -> "send"
      [] at = "send" -> "clear"
      [] at = "clear" -> "idle"

\* the data of the data_update event
UpdateData(count, size) == [packet_count |-> count, batch_size |-> size]

InitBatching ==
    /\ stream = <<>>
    /\ DecoderConstructed
    /\ RingConstructed
    /\ BridgeConstructed
    /\ MessengerConstructed
    /\ mon_acc_total = <<>>
    /\ StatsConstructed
    /\ PanelConstructed
    /\ ProducerConstructed
    /\ PipeConstructed
    /\ MockConstructed

\* process_acceleration_data up to the test of the batch length:
\* self.data_batch.append(data_point); self.packet_count += 1
ProcessAccelerationData ==
    /\ proc_pc = "idle"
    /\ ble_packet_count < MaxDecoded
    /\ handler_batch' = Append(handler_batch, DataPoint(ble_packet_count + 1))
    /\ ble_packet_count' = ble_packet_count + 1
    /\ proc_pc' = IF BatchFull(Len(handler_batch) + 1) THEN ProcNext("full") ELSE "idle"
    /\ UNCHANGED <<publishes, consumerVars>>
    /\ UNCHANGED <<data_file, published, message_file, status_file, pipeFrame>>

\* self.messenger.save_data_batch(self.data_batch)
ProcSave ==
    /\ proc_pc = "save"
    /\ data_file' = [exists |-> TRUE, content |-> SavedContent(data_file, handler_batch)]
    /\ published' = published \o handler_batch
    /\ publishes' = publishes + 1
    /\ proc_pc' = ProcNext("save")
    /\ UNCHANGED <<handler_batch, ble_packet_count, consumerVars>>
    /\ UNCHANGED <<message_file, status_file, pipeFrame>>

\* self.messenger.send_message('data_update', {'packet_count': ..., 'batch_size': ...})
ProcSend ==
    /\ proc_pc = "send"
    /\ message_file' = Event("data_update", UpdateData(ble_packet_count, Len(handler_batch)))
    /\ proc_pc' = ProcNext("send")
    /\ UNCHANGED <<handler_batch, ble_packet_count, publishes, consumerVars>>
    /\ UNCHANGED <<data_file, published, status_file, pipeFrame>>

\* self.data_batch = []
ProcClear ==
    /\ proc_pc = "clear"
    /\ handler_batch' = <<>>
    /\ proc_pc' = ProcNext("clear")
    /\ UNCHANGED <<ble_packet_count, publishes, consumerVars>>
    /\ UNCHANGED <<data_file, published, message_file, status_file, pipeFrame>>

\* the producer is stopped, or the sensor stops sending: run_ble_loop leaves
\* its loop and runs disconnect, which does not look at self.data_batch, and
\* no notification calls process_acceleration_data any more
ProducerStops ==
    /\ proc_pc = "idle"
    /\ proc_pc' = "disc_msg"
    /\ status_file' = [exists |-> TRUE, content |-> StatusOnDisconnect]
    /\ UNCHANGED <<handler_batch, ble_packet_count, publishes, consumerVars>>
    /\ UNCHANGED <<data_file, published, message_file, pipeFrame>>

\* disconnect: send_message('disconnected', {}); the thread ends
StopMessage ==
    /\ proc_pc = "disc_msg"
    /\ proc_pc' = "stopped"
    /\ message_file' = Event("disconnected", <<>>)
    /\ UNCHANGED <<handler_batch, ble_packet_count, publishes, consumerVars>>
    /\ UNCHANGED <<data_file, published, status_file, pipeFrame>>

\* dict.get(key, default)
Get(d, key, default) == IF key \in DOMAIN d THEN d[key] ELSE default

\* handle_message taking the count of any message, 0 when it has none
handle_message_Reset(message, current) ==
    IF message.type = "data_update" THEN Get(message.data, "packet_count", 0) ELSE 0

\* handle_message(message): the value of self.packet_count it leaves
handle_message(message, current) ==
    IF message.type = "data_update"
    THEN Get(message.data, "packet_count", current)
    ELSE current

\* datetime.fromisoformat(s) returns: s is an ISO timestamp (a malformed one
\* is a negative number here)
IsIso(s) == s >= 0

\* the three deques, after one iteration of the loop of load_latest_data:
\* the appends up to the first expression that raises (a missing key, a
\* malformed timestamp), which the `except` of the iteration swallows
AppendEntry(bufs, data_point) ==
    IF ~("timestamp" \in DOMAIN data_point /\ IsIso(data_point.timestamp))
    THEN [bufs EXCEPT !.raised = TRUE]
    ELSE LET t == DequeAppend(bufs.timestamps, data_point.timestamp, DequeMaxLen)
         IN  IF ~({"acc_x", "acc_y", "acc_z"} \subseteq DOMAIN data_point)
             THEN [bufs EXCEPT !.timestamps = t, !.raised = TRUE]
             ELSE LET a == DequeAppend(bufs.acc_data,
                                       <<data_point.acc_x, data_point.acc_y, data_point.acc_z>>,
                                       DequeMaxLen)
                  IN  IF "acc_total" \notin DOMAIN data_point
                      THEN [bufs EXCEPT !.timestamps = t, !.acc_data = a, !.raised = TRUE]
                      ELSE [bufs EXCEPT !.timestamps = t, !.acc_data = a,
                                        !.acc_total = DequeAppend(bufs.acc_total,
                                                                  data_point.acc_total,
                                                                  DequeMaxLen)]

\* the number of appends the iteration for data_point makes before an
\* expression of it raises: 3 when none does
Appends(data_point) ==
    IF ~("timestamp" \in DOMAIN data_point /\ IsIso(data_point.timestamp)) THEN 0
    ELSE IF ~({"acc_x", "acc_y", "acc_z"} \subseteq DOMAIN data_point) THEN 1
    ELSE IF "acc_total" \notin DOMAIN data_point THEN 2
    ELSE 3

ReachesTimestamps(data_point) == Appends(data_point) >= 1
ReachesAccData(data_point) == Appends(data_point) >= 2
ReachesAccTotal(data_point) == Appends(data_point) >= 3

\* deque(maxlen=n) after the appends of xs in order
DequeExtend(d, xs, maxlen) ==
    LET all == d \o xs
    IN  IF Len(all) > maxlen THEN SubSeq(all, Len(all) - maxlen + 1, Len(all)) ELSE all

\* `for data_point in latest_data:` of load_latest_data, every iteration
\* appending as AppendEntry does
LoadLoop(bufs, latest_data) ==
    LET ts == SelectSeq(latest_data, ReachesTimestamps)
        ad == SelectSeq(latest_data, ReachesAccData)
        at == SelectSeq(latest_data, ReachesAccTotal)
    IN  [timestamps |-> DequeExtend(bufs.timestamps,
                                    [k \in 1 .. Len(ts) |-> ts[k].timestamp], DequeMaxLen),
         acc_data   |-> DequeExtend(bufs.acc_data,
                                    [k \in 1 .. Len(ad) |-> <<ad[k].acc_x, ad[k].acc_y, ad[k].acc_z>>],
                                    DequeMaxLen),
         acc_total  |-> DequeExtend(bufs.acc_total,
                                    [k \in 1 .. Len(at) |-> at[k].acc_total], DequeMaxLen),
         raised     |-> bufs.raised \/ Len(at) < Len(latest_data)]

\* the three deques after `.clear()`
Cleared == [timestamps |-> <<>>, acc_data |-> <<>>, acc_total |-> <<>>, raised |-> FALSE]

\* load_latest_data keeping what the deques hold
load_latest_data_Appending(file, bufs) ==
    LoadLoop([bufs EXCEPT !.raised = FALSE], get_latest_data(file, LoadMaxPoints))

\* load_latest_data: the three deques it leaves
load_latest_data(file, bufs) ==
    LoadLoop(Cleared, get_latest_data(file, LoadMaxPoints))

\* the three deques of the monitor
MonitorBuffers ==
    [timestamps |-> mon_timestamps, acc_data |-> mon_acc_data,
     acc_total |-> mon_buf_total, raised |-> FALSE]

\* the capture feed_test_data replays (test_capture.json), as
\* capture_test_data writes it: every entry has the five keys
TestData ==
    <<[timestamp |-> 9001, acc_x |-> 1, acc_y |-> 2, acc_z |-> 2049,
       acc_total |-> <<"norm", 1, 2, 2049>>],
      [timestamp |-> 9002, acc_x |-> 2, acc_y |-> 2, acc_z |-> 2049,
       acc_total |-> <<"norm", 2, 2, 2049>>]>>

\* the tick's record of itself
TickLog(fed, raised, loaded, charted) ==
    <<[fed |-> fed, raised |-> raised, loaded |-> loaded, charted |-> charted]>>

\* the v2 monitor's buffers take the value of bufs
SetBuffers(bufs) ==
    /\ mon_timestamps' = bufs.timestamps
    /\ mon_acc_data' = bufs.acc_data
    /\ mon_buf_total' = bufs.acc_total

\* update_plot is called by the animation timer; in replay mode
\* feed_test_data appends the sample of the capture the clock selects, and
\* an exception it raises ends the tick
TickBegin ==
    /\ tick_pc = "idle"
    /\ IF replaying_test
       THEN \E idx_ \in 1 .. Len(TestData) :
               LET fed == AppendEntry(MonitorBuffers, TestData[idx_])
               IN  /\ SetBuffers(fed)
                   /\ tick_log' = TickLog(<<TestData[idx_]>>, fed.raised, <<>>, <<>>)
                   /\ tick_pc' = IF fed.raised THEN "idle" ELSE "get_message"
       ELSE /\ UNCHANGED <<mon_timestamps, mon_acc_data, mon_buf_total>>
            /\ tick_log' = TickLog(<<>>, FALSE, <<>>, <<>>)
            /\ tick_pc' = "get_message"
    /\ UNCHANGED <<mon_packet_count, polled, replaying_test, handlerVars>>
    /\ UNCHANGED <<data_file, published, message_file, status_file, pipeFrame>>

\* message = self.messenger.get_message()
TickGetMessage ==
    /\ tick_pc = "get_message"
    /\ polled' = IF message_file.exists THEN <<message_file.content>> ELSE <<>>
    /\ message_file' = [exists |-> FALSE, content |-> <<>>]
    /\ tick_pc' = "handle"
    /\ UNCHANGED <<mon_packet_count, mon_timestamps, mon_acc_data, mon_buf_total,
                   replaying_test, tick_log, handlerVars>>
    /\ UNCHANGED <<data_file, published, status_file, pipeFrame>>

\* `if message: self.handle_message(message)`
TickHandle ==
    /\ tick_pc = "handle"
    /\ mon_packet_count' = IF polled # <<>>
                           THEN handle_message(polled[1], mon_packet_count)
                           ELSE mon_packet_count
    /\ tick_pc' = "load"
    /\ UNCHANGED <<mon_timestamps, mon_acc_data, mon_buf_total, polled,
                   replaying_test, tick_log, handlerVars>>
    /\ UNCHANGED <<data_file, published, message_file, status_file, pipeFrame>>

\* self.load_latest_data()
TickLoad ==
    /\ tick_pc = "load"
    /\ SetBuffers(load_latest_data(data_file, MonitorBuffers))
    /\ tick_log' = TickLog(tick_log[1].fed, FALSE,
                           <<get_latest_data(data_file, LoadMaxPoints)>>, <<>>)
    /\ tick_pc' = "stats"
    /\ UNCHANGED <<mon_packet_count, polled, replaying_test, handlerVars>>
    /\ UNCHANGED <<data_file, published, message_file, status_file, pipeFrame>>

\* the rest of update_plot: get_status, the rolling statistics over
\* list(self.acc_total) and update_lower_right
TickStats ==
    /\ tick_pc = "stats"
    /\ tick_log' = TickLog(tick_log[1].fed, FALSE, tick_log[1].loaded,
                           <<[timestamps |-> mon_timestamps, acc_total |-> mon_buf_total]>>)
    /\ tick_pc' = "idle"
    /\ UNCHANGED <<mon_packet_count, mon_timestamps, mon_acc_data, mon_buf_total,
                   polled, replaying_test, handlerVars>>
    /\ UNCHANGED <<data_file, published, message_file, status_file, pipeFrame>>

NextBatching ==
    \/ ProcessAccelerationData \/ ProcSave \/ ProcSend \/ ProcClear
    \/ ProducerStops \/ StopMessage
    \/ TickBegin \/ TickGetMessage \/ TickHandle \/ TickLoad \/ TickStats

SpecBatching == InitBatching /\ [][NextBatching]_vars

-----------------------------------------------------------------------------
(* The monitor's tick over a log that other threads write                  *)
(* (wt901_live_graph_v2.py): update_plot with feed_test_data and           *)
(* load_latest_data, the replay button, and the writers of the log: a BLE  *)
(* handler publishing whole batches and a mock thread replaying the        *)
(* entries of mock_vibration_data.json one at a time.                      *)

\* the batches a run publishes
MaxLogBatches == 4
\* the entries a run's mock thread saves
MaxMockSaves == 1

\* the entries of mock_vibration_data.json: one as create_mock_data writes
\* them, and entries of a file written by hand: without magnitude, without
\* axes, with a timestamp fromisoformat rejects
MockData ==
    <<[timestamp |-> 8001, acc_x |-> 1, acc_y |-> 2, acc_z |-> 2049,
       acc_total |-> <<"norm", 1, 2, 2049>>],
      [timestamp |-> 8002, acc_x |-> 1, acc_y |-> 2, acc_z |-> 2049],
      [timestamp |-> 8003, acc_total |-> <<"norm", 1, 2, 2049>>],
      [timestamp |-> -1, acc_x |-> 1, acc_y |-> 2, acc_z |-> 2049,
       acc_total |-> <<"norm", 1, 2, 2049>>]>>

InitConsumer ==
    /\ stream = <<>>
    /\ DecoderConstructed
    /\ RingConstructed
    /\ BridgeConstructed
    /\ MessengerConstructed
    /\ mon_acc_total = <<>>
    /\ StatsConstructed
    /\ PanelConstructed
    /\ ProducerConstructed
    /\ PipeConstructed
    /\ MockConstructed

\* on_replay_test_data: the replay button toggles replaying_test (the GUI
\* thread runs it between two ticks)
OnReplayTestData ==
    /\ tick_pc = "idle"
    /\ replaying_test' = ~replaying_test
    /\ UNCHANGED <<mon_packet_count, mon_timestamps, mon_acc_data, mon_buf_total,
                   tick_pc, polled, tick_log, handlerVars>>
    /\ UNCHANGED <<data_file, published, message_file, status_file, pipeFrame>>

\* a BLE handler publishes its next batch: save_data_batch(self.data_batch)
BatchPublished ==
    /\ publishes < MaxLogBatches
    /\ LET data_batch == Batch(batch_size * publishes + 1, batch_size)
       IN  /\ data_file' = [exists |-> TRUE, content |-> SavedContent(data_file, data_batch)]
           /\ published' = published \o data_batch
    /\ publishes' = publishes + 1
    /\ UNCHANGED <<handler_batch, ble_packet_count, proc_pc, consumerVars>>
    /\ UNCHANGED <<message_file, status_file, pipeFrame>>

\* the mock thread: self.messenger.save_data_batch([data_point])
MockSaved ==
    /\ Len(published) - batch_size * publishes < MaxMockSaves
    /\ \E idx_ \in 1 .. Len(MockData) :
          /\ data_file' = [exists |-> TRUE,
                           content |-> SavedContent(data_file, <<MockData[idx_]>>)]
          /\ published' = Append(published, MockData[idx_])
    /\ UNCHANGED <<handlerVars, consumerVars>>
    /\ UNCHANGED <<message_file, status_file, pipeFrame>>

NextConsumer ==
    \/ OnReplayTestData \/ BatchPublished \/ MockSaved
    \/ TickBegin \/ TickGetMessage \/ TickHandle \/ TickLoad \/ TickStats

SpecConsumer == InitConsumer /\ [][NextConsumer]_vars

-----------------------------------------------------------------------------
(* The mock device (wt901_live_graph_v2.py): on_mock_device toggles         *)
(* self.mock_active and starts a thread that replays mock_vibration_data    *)
(* into the log while the flag is set. The thread object is not kept and    *)
(* never joined. No BLE thread is started in this component.                *)

\* the entries a run's mock threads save
MaxMockPublished == 3

\* the variables of the other components a step of the mock device leaves alone
mockFrame ==
    <<decoderVars, ringVars, statsVars, panelVars, pipeVars, result, lock, corrupt,
      th, nops, pending, replaced, status_log, last_drain, status_file, message_file,
      client, link, handler_device, ble_thread, prod, gui, started>>

InitMock ==
    /\ stream = <<>>
    /\ DecoderConstructed
    /\ RingConstructed
    /\ BridgeConstructed
    /\ MessengerConstructed
    /\ mon_acc_total = <<>>
    /\ StatsConstructed
    /\ PanelConstructed
    /\ ProducerConstructed
    /\ PipeConstructed
    /\ MockConstructed

\* start_mock_device: `self.mock_active = True`, then a new thread is started
\* on mock_thread (index = 0, then the loop test)
StartMockDevice ==
    /\ mock_active' = TRUE
    /\ mock_started' = mock_started + 1
    /\ mock' = [mock EXCEPT ![mock_started + 1] = [pc |-> "check", index |-> 0]]

\* on_mock_device: with the mock off, stop_ble_thread (no BLE thread to join,
\* no mock to stop) and start_mock_device; with the mock on, stop_ble_thread,
\* which clears mock_active
OnMockDevice ==
    /\ is_running' = FALSE
    /\ IF ~mock_active
       THEN /\ mock_started < MaxMockStarts
            /\ StartMockDevice
            /\ stopped' = FALSE
       ELSE /\ mock_active' = FALSE
            /\ stopped' = TRUE
            /\ UNCHANGED <<mock, mock_started>>
    /\ UNCHANGED <<data_file, published, mockFrame>>

\* mock_thread: `while hasattr(self, 'mock_active') and self.mock_active:`
\* (after the sleep of the iteration before); the thread ends when the flag
\* it reads is False
MockCheck(m) ==
    /\ mock[m].pc = "check"
    /\ mock' = [mock EXCEPT ![m].pc = IF mock_active THEN "save" ELSE "done"]
    /\ UNCHANGED <<is_running, mock_active, stopped, mock_started>>
    /\ UNCHANGED <<data_file, published, mockFrame>>

\* mock_thread: `if index >= len(mock_data): index = 0`,
\* save_data_batch([mock_data[index]]), index += 1, time.sleep(0.1)
MockSave(m) ==
    /\ mock[m].pc = "save"
    /\ Len(published) < MaxMockPublished
    /\ LET index == IF mock[m].index >= Len(MockData) THEN 0 ELSE mock[m].index
           data_point == MockData[index + 1]
       IN  /\ data_file' = [exists |-> TRUE,
                            content |-> SavedContent(data_file, <<data_point>>)]
           /\ published' = Append(published, data_point)
           /\ mock' = [mock EXCEPT ![m] = [pc |-> "check", index |-> index + 1]]
    /\ UNCHANGED <<is_running, mock_active, stopped, mock_started, mockFrame>>

NextMock ==
    \/ OnMockDevice
    \/ \E m \in MockThreads : MockCheck(m) \/ MockSave(m)

SpecMock == InitMock /\ [][NextMock]_vars

-----------------------------------------------------------------------------
(* Frame decoder: properties *)

\* The two bytes at 0-based position k of d are (0x55, kind).
HeaderAt(d, k, kind) ==
    k >= 0 /\ k + 2 <= Len(d) /\ d[k + 1] = HeaderByte /\ d[k + 2] = kind

\* lo + 256*hi read as a signed 16-bit integer.
S16(lo, hi) == ((lo + 256 * hi + 32768) % 65536) - 32768

\* The axis triple held by bytes k+2 .. k+7 of d, in units of 1/32768 g.
AxesAt(d, k) ==
    <<16 * S16(d[k + 3], d[k + 4]),
      16 * S16(d[k + 5], d[k + 6]),
      16 * S16(d[k + 7], d[k + 8])>>

Axes(s) == <<s.acc_x, s.acc_y, s.acc_z>>

\* This step appends exactly one sample, decoded from bytes k+2..k+7 of data.
EmitsOneSampleFrom(k) ==
    /\ Len(out') = Len(out) + 1
    /\ SubSeq(out', 1, Len(out)) = out
    /\ out'[Len(out')].frame_at = k
    /\ Axes(out'[Len(out')]) = AxesAt(data, k)

AtLoopHead == pc = "scan" /\ i < Len(data)

\* C1: at every scan position i reached, a (0x55,0x51) header with i+11 <= len
\* emits exactly one sample from bytes i+2..i+7 and advances i by 11; otherwise
\* a (0x55,0x61) header with i+16 <= len emits exactly one sample from bytes
\* i+2..i+7 and advances i by 16.
C1_CompleteFrameEmitsOneSample ==
    [][ AtLoopHead =>
          LET is51 == HeaderAt(data, i, Kind51) /\ i + 11 <= Len(data)
              is61 == ~is51 /\ HeaderAt(data, i, Kind61) /\ i + 16 <= Len(data)
          IN  /\ is51 => (i' = i + 11 /\ EmitsOneSampleFrom(i))
              /\ is61 => (i' = i + 16 /\ EmitsOneSampleFrom(i)) ]_vars

\* C1 witness: one call has decoded an 11-byte and a 16-byte frame.
C1_Witness ==
    /\ \E j \in 1 .. Len(out) : out[j].frame_len = 11
    /\ \E j \in 1 .. Len(out) : out[j].frame_len = 16 /\ i >= out[j].frame_at + 16

\* A header at k whose declared frame length does not fit in d.
TruncatedHeaderAt(d, k) ==
    \/ HeaderAt(d, k, Kind51) /\ k + 11 > Len(d)
    \/ HeaderAt(d, k, Kind61) /\ k + 16 > Len(d)

\* C2: once the scan has reached a header with fewer bytes left than its
\* declared length, no sample is emitted from that position or from any later
\* position of the same call.
C2_TruncatedHeaderStopsScan ==
    \A k \in visited :
        TruncatedHeaderAt(data, k) =>
            \A j \in 1 .. Len(out) : out[j].frame_at < k

\* C3: where the two bytes at i match neither header the scan advances by one
\* and emits nothing; a call on k header-free garbage bytes followed by exactly
\* one complete frame ends with exactly one sample, from offset k.
NoHeaderAt(d, k) == ~HeaderAt(d, k, Kind51) /\ ~HeaderAt(d, k, Kind61)

GarbageThenFrame(d, k) ==
    /\ \A g \in 0 .. k - 1 : NoHeaderAt(d, g)
    /\ \/ HeaderAt(d, k, Kind51) /\ Len(d) = k + 11
       \/ HeaderAt(d, k, Kind61) /\ Len(d) = k + 16

C3_NoHeaderAdvancesByOne ==
    /\ [][ (AtLoopHead /\ NoHeaderAt(data, i)) => (i' = i + 1 /\ out' = out) ]_vars
    /\ [](\A k \in 0 .. Len(data) :
            (pc = "idle" /\ calls > 0 /\ GarbageThenFrame(data, k)) =>
                (Len(out) = 1 /\ out[1].frame_at = k /\ Axes(out[1]) = AxesAt(data, k)))

\* C3 witness: a finished call on two or more garbage bytes and one frame.
C3_Witness ==
    /\ pc = "idle" /\ calls > 0
    /\ \E k \in 2 .. Len(data) : GarbageThenFrame(data, k) /\ Len(out) = 1

\* C4: every emitted sample comes from a byte range inside the buffer that
\* starts with the matching header and has the declared length; successive
\* ranges are disjoint and in increasing order.
C4_SamplesFromDisjointInBoundsFrames ==
    /\ \A j \in 1 .. Len(out) :
          LET s == out[j]
          IN  /\ s.frame_at >= 0
              /\ s.frame_at + s.frame_len <= Len(data)
              /\ \/ HeaderAt(data, s.frame_at, Kind51) /\ s.frame_len = 11
                 \/ HeaderAt(data, s.frame_at, Kind61) /\ s.frame_len = 16
    /\ \A j \in 1 .. Len(out) - 1 :
          out[j].frame_at + out[j].frame_len <= out[j + 1].frame_at

\* C4 witness: two samples from one call, the second frame holding a header-like
\* pair in its payload.
C4_Witness ==
    /\ Len(out) >= 2
    /\ \E k \in out[2].frame_at + 1 .. out[2].frame_at + out[2].frame_len - 2 :
          HeaderAt(data, k, Kind51)

\* C5: the scan raises no error, every loop iteration moves i forward by 1, 11
\* or 16 without passing len(data), and every started call returns.
C5_ScanTerminates ==
    /\ [](pc # "raised")
    /\ [][ AtLoopHead => (i' - i \in {1, 11, 16} /\ i' <= Len(data)) ]_vars
    /\ (pc = "scan") ~> (pc = "idle")

\* C5 witness: a call whose last byte is 0x55 has returned, as has one whose
\* tail is a truncated frame.
C5_Witness ==
    /\ pc = "idle" /\ calls > 0 /\ Len(data) > 0
    /\ data[Len(data)] = HeaderByte
    /\ \E k \in 0 .. Len(data) - 1 : TruncatedHeaderAt(data, k)

\* C6: each axis value is the little-endian signed 16-bit integer at frame
\* offsets (2,3), (4,5), (6,7), in x, y, z order, times 16/32768; the raw triple
\* (100, -200, 16384) gives (100*16/32768, -200*16/32768, 8).
C6_AxesLittleEndianScaled ==
    \A j \in 1 .. Len(out) :
        LET s == out[j]
            k == s.frame_at
        IN  /\ Axes(s) = AxesAt(data, k)
            /\ \A a \in 1 .. 3 : Axes(s)[a] \in -16 * 32768 .. 16 * 32767
            /\ SubSeq(data, k + 3, k + 8) = <<100, 0, 56, 255, 0, 64>> =>
                  /\ Axes(s) = <<100 * 16, -200 * 16, 8 * AccDivisor>>
                  /\ s.acc_total = <<"norm", 1600, -3200, 262144>>

\* C6 witness: the example frame has been decoded.
C6_Witness ==
    \E j \in 1 .. Len(out) :
        /\ SubSeq(data, out[j].frame_at + 3, out[j].frame_at + 8) = <<100, 0, 56, 255, 0, 64>>
        /\ out[j].acc_y < 0

\* A complete frame of the stream, at stream offset s, that the notification
\* boundary c splits.
SplitFrame(s, flen, c) ==
    /\ \/ HeaderAt(stream, s, Kind51) /\ flen = 11
       \/ HeaderAt(stream, s, Kind61) /\ flen = 16
    /\ s + flen <= Len(stream)
    /\ s < c /\ c < s + flen

\* C7: a call scans exactly the bytes it was given, and a frame delivered
\* split across two calls is emitted by neither.
C7_NoStateBetweenCalls ==
    /\ Len(data) <= delivered
    /\ data = Slice(stream, delivered - Len(data), delivered)
    /\ (calls > 0 => (delivered - Len(data)) \in cuts \cup {0})
    /\ \A e \in emitted : \A c \in cuts : ~SplitFrame(e[1], e[2], c)

\* C7 witness: the stream is one frame, delivered in two parts, both scanned.
C7_Witness ==
    /\ pc = "idle" /\ calls = 2 /\ delivered = Len(stream)
    /\ Len(stream) \in {11, 16}
    /\ \E c \in cuts : \E flen \in {11, 16} : SplitFrame(0, flen, c)

-----------------------------------------------------------------------------
(* Consumer-side buffers: properties *)

\* the last min(n, Len(s)) elements of s, oldest first
LastOf(s, n) == IF Len(s) <= n THEN s ELSE SubSeq(s, Len(s) - n + 1, Len(s))

\* C8: the three buffers never hold more than 1000 elements, and always hold
\* exactly the most recent min(1000, pushed) samples pushed, oldest first (so a
\* push on a full buffer drops the single oldest element and keeps the order).
C8_BuffersHoldLast1000 ==
    LET kept == LastOf(appended, 1000)
    IN  /\ Len(timestamps) <= 1000 /\ Len(acc_data) <= 1000 /\ Len(acc_total) <= 1000
        /\ timestamps = [j \in 1 .. Len(kept) |-> kept[j].timestamp]
        /\ acc_data = [j \in 1 .. Len(kept) |-> kept[j].acc_data]
        /\ acc_total = [j \in 1 .. Len(kept) |-> kept[j].acc_total]

\* C8 witness: capacity + 5 samples have been pushed into the empty buffers.
C8_Witness ==
    /\ Len(appended) = 1000 + 5
    /\ Len(timestamps) = 1000
    /\ timestamps[1] = 6 /\ timestamps[1000] = 1005

-----------------------------------------------------------------------------
(* Bridge sample log: properties *)

\* C9: after any sequence of save_data_batch calls the log holds at most 1000
\* entries and equals the last min(1000, total) entries of the concatenation of
\* all saved batches, in order.
C9_LogIsLast1000Published ==
    /\ Len(data_file.content) <= 1000
    /\ data_file.content = LastOf(published, 1000)
    /\ data_file.exists <=> published # <<>>

\* C9 witness: batches of both sizes have overflowed the log.
C9_Witness ==
    /\ Len(published) > 1000 + batch_size
    /\ Len(data_file.content) = 1000
    /\ result.op = "save_data_batch" /\ result.arg = 1

\* C10: get_latest_data(max) returns at most max samples, the last
\* min(max, len(log)) entries of the log, oldest first.
C10_DrainReturnsLastMax ==
    result.op = "get_latest_data" =>
        /\ Len(result.value) <= result.arg
        /\ result.value = LastOf(data_file.content, result.arg)

-----------------------------------------------------------------------------
(* Bridge channels under threads: properties *)

\* thread t is inside operation op (waiting for the lock or holding it)
Inside(t, op) == th[t].op = op /\ th[t].pc # "idle"

\* C11: no step of get_latest_data changes the sample log, the event slot or
\* the status register, and a drain that follows another drain with no publish
\* completed in between returns the same sequence.
C11_DrainNonDestructive ==
    /\ [][ \A t \in Threads :
             (Inside(t, "get_latest_data") /\ th'[t] # th[t]) =>
                 UNCHANGED <<data_file, message_file, status_file, corrupt>> ]_vars
    /\ [](\A t \in Threads :
             (Inside(t, "get_latest_data") /\ th[t].pc = "release"
                /\ last_drain # <<>> /\ last_drain[1].arg = th[t].arg)
             => th[t].ret = last_drain[1].ret)

\* C11 witness: a second drain returns the stale samples of the first, with
\* an event or a status present.
C11_Witness ==
    /\ Inside("gui", "get_latest_data") /\ th["gui"].pc = "release"
    /\ last_drain # <<>> /\ th["gui"].ret # <<>>
    /\ message_file.exists \/ status_file.exists

\* C12: the event slot holds exactly the event of the last completed
\* send_message that no get_message has taken, and nothing else (so at most
\* one event is pending, and a send replaces the pending one); get_message
\* returns that event and leaves the slot empty, or None when there is none
\* (so a second get_message without a send in between returns None); an event
\* that a later send replaced is never returned.
C12_SingleSlotMailbox ==
    /\ Len(pending) <= 1
    /\ lock = "free" =>
          /\ message_file.exists <=> pending # <<>>
          /\ message_file.exists => <<message_file.content>> = pending
    /\ \A t \in Threads :
          (Inside(t, "get_message") /\ th[t].pc = "release") =>
              /\ th[t].ret = pending
              /\ ~message_file.exists
              /\ \A j \in 1 .. Len(th[t].ret) : th[t].ret[j] \notin replaced

\* C12 witness: a send has replaced a pending event, a get_message has taken
\* the newer event, and the next get_message returns None.
C12_Witness ==
    /\ Inside("gui", "get_message") /\ th["gui"].pc = "release"
    /\ th["gui"].ret = <<>>
    /\ replaced # {} /\ pending = <<>>

\* C13: get_status returns the argument of the most recent completed
\* update_status, or the default snapshot when none has completed; no step of
\* get_status changes the status file, which holds that argument and nothing
\* of the earlier ones.
C13_StatusLastValue ==
    /\ [](\A t \in Threads :
            (Inside(t, "get_status") /\ th[t].pc = "release") =>
                th[t].ret = IF status_log = <<>> THEN DefaultStatus
                            ELSE status_log[Len(status_log)])
    /\ [](lock = "free" =>
            /\ status_file.exists <=> status_log # <<>>
            /\ status_file.exists => status_file.content = status_log[Len(status_log)])
    /\ [][ \A t \in Threads :
             (Inside(t, "get_status") /\ th'[t] # th[t]) => status_file' = status_file ]_vars

\* C13 witness: two different snapshots were written and get_status returns
\* the second.
C13_Witness ==
    /\ Inside("gui", "get_status") /\ th["gui"].pc = "release"
    /\ Len(status_log) = 2 /\ status_log[1] # status_log[2]
    /\ th["gui"].ret = status_log[2]

\* the threads inside a critical section
InCs == {t \in Threads : th[t].pc \in CsPcs}

\* C14: at most one thread is inside a FileMessenger critical section, and it
\* holds the lock; whenever a reader or a publisher is about to look at the
\* sample log, and whenever the lock is free, the log is a complete document
\* holding the last min(1000, total) samples of all the batches written so
\* far, and a drain returns the last min(max, len) of them.
C14_OneOperationInCriticalSection ==
    /\ Cardinality(InCs) <= 1
    /\ \A t \in InCs : lock = t
    /\ lock = "free" => InCs = {}
    /\ \A t \in Threads :
          (ChannelOf(th[t].op) = "data" /\ th[t].pc \in {"acquire", "exists", "read"}
             /\ (lock = "free" \/ lock = t)) =>
              /\ "data" \notin corrupt
              /\ data_file.content = LastOf(published, 1000)
    /\ lock = "free" => (corrupt = {} /\ data_file.content = LastOf(published, 1000))
    /\ \A t \in Threads :
          (Inside(t, "get_latest_data") /\ th[t].pc = "release") =>
              th[t].ret = LastOf(LastOf(published, 1000), th[t].arg)

\* C14 witness: the BLE thread is between truncating and rewriting the log
\* that already holds a batch, while the mock thread waits to publish and the
\* GUI thread waits to drain.
C14_Witness ==
    /\ Inside("ble", "save_data_batch") /\ th["ble"].pc = "dump"
    /\ th["ble"].local # <<>>
    /\ Inside("mock", "save_data_batch") /\ th["mock"].pc = "acquire"
    /\ Inside("gui", "get_latest_data") /\ th["gui"].pc = "acquire"

\* C15: a thread that waits for the lock does not hold it, a thread outside
\* every operation does not hold it, leaving an operation frees the lock on
\* the normal and on the exception path alike, and under fair scheduling every
\* call that has requested the lock completes.
C15_NoDeadlock ==
    /\ [](\A t \in Threads : th[t].pc \in {"idle", "acquire"} => lock # t)
    /\ [][ \A t \in Threads :
             (th[t].pc = "release" /\ th'[t].pc = "idle") => lock' = "free" ]_vars
    /\ \A t \in Threads : (th[t].pc = "acquire") ~> (th[t].pc = "idle")

\* C15 witness: an operation of the BLE thread is leaving on its exception
\* path while the GUI thread waits for the lock.
C15_Witness ==
    /\ th["ble"].pc = "release" /\ th["ble"].fault
    /\ th["gui"].pc = "acquire"

\* C16: whenever a thread is at a file system call of a bridge channel
\* (exists, open, read, write or remove), the lock is free.
C16_LockFreeDuringIo ==
    \A t \in Threads : th[t].pc \in IoPcs => lock = "free"

\* C17: when a publish or an update has met an I/O fault, it returns to its
\* caller with the channel showing what it showed when the call entered: a
\* getter returns what it would have returned before the failed call.
C17_FaultKeepsPreviousState ==
    \A t \in Threads :
        (th[t].pc = "release" /\ th[t].fault
           /\ th[t].op \in {"save_data_batch", "update_status", "send_message"})
        => /\ Visible("data") = th[t].before.data
           /\ Visible("status") = th[t].before.status

-----------------------------------------------------------------------------
(* Rolling statistics: properties *)

\* the length L of the recent-sample sequence of the present buffer
RecentLen == IF Len(mon_acc_total) < 100 THEN Len(mon_acc_total) ELSE 100

\* max(0, L - W + 1) for W = 30
SeriesLen(L) == IF L - 30 + 1 > 0 THEN L - 30 + 1 ELSE 0

\* C18: after a tick on L >= 1 recent samples, the mean, peak and std series
\* it computed, and set on the chart lines, all have length max(0, L - 30 + 1),
\* as have their x values; all three are empty when L < 30.
C18_SeriesAligned ==
    (tick_done /\ RecentLen >= 1) =>
        /\ Len(means) = SeriesLen(RecentLen)
        /\ Len(peaks) = SeriesLen(RecentLen)
        /\ Len(stds) = SeriesLen(RecentLen)
        /\ lines.mean.y = means /\ lines.peak.y = peaks /\ lines.std.y = stds
        /\ \A k \in {"mean", "peak", "std"} : Len(lines[k].x) = Len(lines[k].y)
        /\ RecentLen < 30 => (means = <<>> /\ peaks = <<>> /\ stds = <<>>)

\* C18 witness: a tick on 32 samples has set three series of 3 elements.
C18_Witness ==
    /\ tick_done /\ RecentLen = 32
    /\ Len(lines.mean.y) = 3 /\ Len(lines.peak.y) = 3 /\ Len(lines.std.y) = 3

\* the recent-sample sequence of the present buffer: its last min(100, len)
\* magnitudes
Recent == LastOf(mon_acc_total, 100)

\* the locals of the tick belong to the present buffer
InTick == RecentLen >= 1 /\ (stat_pc # "idle" \/ tick_done)

\* C19: every peak computed is the largest of the 30 consecutive magnitudes
\* that start at its index in the recent-sample sequence: it is one of them and
\* no smaller than any of them; the peak line is set to these values unchanged.
C19_PeakIsWindowMax ==
    InTick =>
        /\ \A k \in 1 .. Len(peaks) :
              /\ k + 29 <= Len(Recent)
              /\ \E j \in k .. k + 29 : peaks[k] = Recent[j]
              /\ \A j \in k .. k + 29 : peaks[k] >= Recent[j]
        /\ tick_done => lines.peak.y = peaks

\* C19 witness: the spike enters the second window, and the peak series
\* steps up at once.
C19_Witness ==
    /\ tick_done /\ Len(lines.peak.y) >= 3
    /\ lines.peak.y[1] = 101 /\ lines.peak.y[2] = 130 /\ lines.peak.y[3] = 130

\* the raw mean and the raw standard deviation of the 30 magnitudes that
\* start at index k (1-based) of the recent-sample sequence
RawMean(k) == Frac(SumSeq(SubSeq(Recent, k, k + 29)), 30)

RawStd(k) == np_std(SubSeq(Recent, k, k + 29))

\* series s is the exponential moving average, with alpha = 1/5, of the raw
\* values r(1), r(2), ...: s[1] = r(1) and 5 s[k] = r(k) + 4 s[k-1]
IsEmaOf(s, r(_)) ==
    \A k \in 1 .. Len(s) :
        IF k = 1 THEN s[1] = r(1)
        ELSE FMul(Frac(5, 1), s[k]) = FAdd(r(k), FMul(Frac(4, 1), s[k - 1]))

\* if every raw value of the series is v, every element of the series is v
ConstantKept(s, r(_)) ==
    (\A k \in 1 .. Len(s) : r(k) = r(1)) => (\A k \in 1 .. Len(s) : s[k] = r(1))

\* C20: the mean and the std series are the exponential moving averages, with
\* alpha = 0.2, of the raw windowed means and standard deviations: the first
\* element is the raw value, each later one is alpha times the raw value plus
\* (1 - alpha) times the element before; a constant raw series is kept.
C20_SeriesAreEma ==
    InTick =>
        /\ stat_pc \in {"mean_loop", "std_begin"} =>
              (IsEmaOf(means, RawMean) /\ ConstantKept(means, RawMean))
        /\ stat_pc = "std_loop" => (IsEmaOf(stds, RawStd) /\ ConstantKept(stds, RawStd))
        /\ tick_done =>
              /\ IsEmaOf(lines.mean.y, RawMean) /\ ConstantKept(lines.mean.y, RawMean)
              /\ IsEmaOf(lines.std.y, RawStd) /\ ConstantKept(lines.std.y, RawStd)

\* C20 witness: the spike has entered the second window, and the second
\* element of both series has left the first element without reaching the
\* second raw value.
C20_Witness ==
    /\ tick_done /\ Len(lines.mean.y) >= 3
    /\ lines.mean.y[1] = RawMean(1) /\ lines.mean.y[2] # RawMean(2)
    /\ lines.mean.y[2] # lines.mean.y[1]
    /\ lines.std.y[2] # RawStd(2) /\ lines.std.y[2] # lines.std.y[1]

-----------------------------------------------------------------------------
(* Status panel and classifier: properties *)

\* the status branch of update_lower_right has run on the present buffer
Evaluated == main_pc = "running" /\ show_status /\ Len(mon_acc_total) >= 1

\* the most recent min(30, L) samples of the present buffer
MostRecent ==
    LET L == Len(mon_acc_total)
        n == IF L < 30 THEN L ELSE 30
    IN  [j \in 1 .. n |-> mon_acc_total[L - n + j]]

Level ==
    IF texts.alert.color = "red" THEN "Warning"
    ELSE IF texts.alert.color = "orange" THEN "Caution"
    ELSE "Normal"

C24_SameMeanSameClassification ==
    [][ (evals # <<>> /\ Evaluated' /\ evals'[1].mean = evals[1].mean)
        => /\ evals'[1].baseline = evals[1].baseline
           /\ evals'[1].diff = evals[1].diff
           /\ evals'[1].alert = evals[1].alert
           /\ texts'.alert = evals[1].alert
           /\ texts'.baseline_diff[1] = evals[1].baseline.name
           /\ texts'.baseline_diff[2] = Fmt(evals[1].diff, 10) ]_vars

\* a mean above 1.03 has been evaluated twice in a row, on buffers of
\* different lengths and under different connection statuses
C24_Witness ==
    /\ Evaluated
    /\ evals[1].again
    /\ Level = "Caution"

\* C28: load_baseline_data never raises; when vibration_log.csv is absent or
\* unreadable it leaves baseline_data = None; and every evaluation, with or
\* without a loaded history, classifies by the fixed constants 1.01, 1.03
\* and 1.23.
C28_NoHistoryIsNoError ==
    /\ main_pc # "raised"
    /\ main_pc = "running" =>
          /\ ~(csv_found.exists /\ csv_found.readable) => baseline_data = <<>>
          /\ (csv_found.exists /\ csv_found.readable) => baseline_data # <<>>
    /\ Evaluated =>
          LET e == evals[1]
          IN  /\ e.baseline.value \in {Frac(101, 1), Frac(103, 1)}
              /\ e.diff = FSub(e.mean, e.baseline.value)
              /\ e.alert.color = (IF e.mean.n > 123 * e.mean.d THEN "red"
                                  ELSE IF e.mean.n > 103 * e.mean.d THEN "orange"
                                  ELSE "black")

\* the log file was present but unreadable, nothing was loaded, and a mean
\* above 1.23 has been classified
C28_Witness ==
    /\ Evaluated
    /\ csv_found.exists /\ ~csv_found.readable
    /\ baseline_data = <<>>
    /\ Level = "Warning"

-----------------------------------------------------------------------------
(* Producer life cycle: properties *)

\* the transport calls thread p has made that are calls of op
CallsOf(p, op) == {k \in 1 .. Len(prod[p].ops) : prod[p].ops[k].op = op}

\* the event types thread p has sent
SentTypes(p) == {prod[p].sent[k] : k \in 1 .. Len(prod[p].sent)}

\* thread p is in the `except` of connect_to_device or in the else branch of
\* run_ble_loop
InFailure(p) == prod[p].pc \in {"failed_status", "failed_msg", "else_msg"}

\* thread p has got past the write of the start command
PastWrite(p) ==
    /\ Len(prod[p].ops) >= 1
    /\ prod[p].ops[1].ok
    /\ prod[p].pc \notin {"set_name", "status_connected", "msg_connected", "write_cmd"}

\* C27: in connect_to_device the start command FF AA 69 is attempted exactly
\* once per successful transport connection, as the call after connect and
\* before start_notify; when the write fails the thread still goes on to
\* start_notify and into the loop, sends no connection_failed event and writes
\* no connected = False status before its disconnect.
C27_StartCommandOnceNonFatal ==
    \A p \in Producers :
        LET r == prod[p]
            n == Len(r.ops)
        IN  /\ n >= 1 => r.ops[1].op = "connect"
            /\ Cardinality(CallsOf(p, "write_gatt_char")) = IF PastWrite(p) THEN 1 ELSE 0
            /\ \A k \in CallsOf(p, "write_gatt_char") :
                  /\ k = 2
                  /\ r.ops[1].ok
                  /\ r.ops[k].arg = <<255, 170, 105>>
                  /\ r.wrote[1] = TRUE
            /\ \A k \in CallsOf(p, "start_notify") : k = 3
            /\ (n >= 2 /\ r.ops[2].op = "write_gatt_char" /\ ~r.ops[2].ok) =>
                  /\ ~InFailure(p)
                  /\ "connection_failed" \notin SentTypes(p)
                  /\ r.pc = "subscribe" \/ (n >= 3 /\ r.ops[3].op = "start_notify")
                  /\ \/ r.wrote = <<TRUE>>
                     \/ r.wrote = <<TRUE, FALSE>> /\ r.pc \in {"disc_msg", "clear_flag", "done"}

\* C27 witness: a thread is in its loop after connect succeeded, the write of
\* the start command failed and start_notify succeeded; it has sent only
\* 'connected' and the status says connected.
C27_Witness ==
    \E p \in Producers :
        /\ prod[p].pc = "loop"
        /\ prod[p].ops = <<[op |-> "connect", arg |-> <<>>, ok |-> TRUE],
                           [op |-> "write_gatt_char", arg |-> <<255, 170, 105>>, ok |-> FALSE],
                           [op |-> "start_notify", arg |-> <<>>, ok |-> TRUE]>>
        /\ prod[p].sent = <<"connected">>
        /\ status_file.exists
        /\ status_file.content.connected

\* thread p has been started
Started(p) == prod[p].pc # "unstarted"

\* the transport connection of thread p failed (connect raised)
ConnectFailed(p) == Len(prod[p].ops) >= 1 /\ ~prod[p].ops[1].ok

\* s is a prefix of t
IsPrefix(s, t) == Len(s) <= Len(t) /\ s = SubSeq(t, 1, Len(s))

\* the events of a failed connection attempt, in the order they are sent
FailedAttemptEvents == <<"connection_failed", "connection_failed", "disconnected">>

CurrentConnected ==
    /\ ble_thread # 0
    /\ prod[ble_thread].pc \in {"msg_connected", "write_cmd", "subscribe", "loop"}

\* C29: once the producer started last has connected, and until the next
\* stop request, the status says connected = True with the name and address
\* of its device and is_running is True; also when the thread started before
\* it was still in its disconnect when the join timed out.
C29_RestartKeepsBridgeState ==
    (CurrentConnected /\ ~stopped /\ gui.pc = "idle") =>
        /\ status_file = [exists |-> TRUE, content |-> StatusOnConnect(prod[ble_thread].device)]
        /\ is_running

\* C25: the producer stops cooperatively. A thread in its loop that finds
\* is_running False leaves the loop for disconnect, and unless the flag is set
\* again it terminates; a handler waiting in the join of stop_ble_thread
\* always comes back, whether or not the thread has finished.
C25_CooperativeStop ==
    /\ [][\A p \in Producers :
            (prod[p].pc = "loop" /\ ~is_running /\ prod'[p].pc # "loop") =>
                prod'[p].pc \in {"disc_check", "error_msg"}]_vars
    /\ \A p \in Producers :
          (prod[p].pc = "loop" /\ ~is_running) ~> (prod[p].pc = "done" \/ is_running)
    /\ (gui.pc = "join") ~> (gui.pc = "idle")

\* C25 witness: stop_ble_thread has come back from its join while the thread
\* was still alive; the thread had connected, has left its loop with the flag
\* cleared and awaits the transport's disconnect.
C25_Witness ==
    /\ stopped
    /\ gui.pc = "idle"
    /\ ~is_running
    /\ ble_thread = 1
    /\ prod[1].pc = "disc_await"
    /\ prod[1].sent = <<"connected">>

\* C26: when the transport loses the connection of a producer that has
\* connected and was not asked to stop, the status eventually says
\* connected = False; and the loss leaves the shared log as it is (no step of
\* the life cycle removes the log or makes it shorter).
C26_LossSurfacesInStatus ==
    /\ \A p \in Producers :
          (link[p] = "lost" /\ prod[p].pc \in {"write_cmd", "subscribe", "loop"} /\ ~stopped)
              ~> (status_file.exists /\ ~status_file.content.connected)
    /\ [][data_file.exists =>
             /\ data_file'.exists
             /\ Len(data_file'.content) >= Len(data_file.content)]_vars

-----------------------------------------------------------------------------
(* Batching producer and polling consumer: properties *)

\* process_acceleration_data is not in the middle of a call
BetweenCalls == proc_pc \in {"idle", "disc_msg", "stopped"}

\* C31: batches of 50. After every call of process_acceleration_data the
\* batch holds fewer than 50 samples and packet_count is 50 times the number
\* of publishes plus the length of the batch; the call that makes the batch
\* reach 50 saves exactly those 50 samples in arrival order with
\* save_data_batch, then sends one data_update event for them, then empties
\* the batch.
C31_BatchesOfFifty ==
    /\ [](BetweenCalls =>
            /\ Len(handler_batch) < batch_size
            /\ ble_packet_count = batch_size * publishes + Len(handler_batch))
    /\ [][/\ (proc_pc = "idle" /\ proc_pc' = "save") =>
                 /\ Len(handler_batch') = batch_size
                 /\ handler_batch' = Batch(ble_packet_count' - batch_size + 1, batch_size)
          /\ (proc_pc = "save" /\ proc_pc' # "save") =>
                 /\ proc_pc' = "send"
                 /\ published' = published \o handler_batch
                 /\ publishes' = publishes + 1
                 /\ Slice(data_file'.content,
                          Len(data_file'.content) - batch_size,
                          Len(data_file'.content)) = handler_batch
                 /\ handler_batch' = handler_batch
          /\ (proc_pc = "send" /\ proc_pc' # "send") =>
                 /\ proc_pc' = "clear"
                 /\ message_file'.content.type = "data_update"
                 /\ message_file'.content.data =
                        UpdateData(batch_size * publishes, batch_size)
                 /\ handler_batch' = handler_batch
          /\ (proc_pc = "clear" /\ proc_pc' # "clear") =>
                 /\ proc_pc' = "idle"
                 /\ handler_batch' = <<>>]_vars

\* C31 witness: two batches were published and a 101st sample waits in the
\* batch.
C31_Witness ==
    /\ proc_pc = "idle"
    /\ publishes = 2
    /\ Len(published) = 2 * batch_size
    /\ Len(handler_batch) = 1
    /\ ble_packet_count = 2 * batch_size + 1

\* C32: every decoded sample is eventually visible in the log; when the
\* producer has stopped, the samples that were in data_batch are published
\* too.
C32_StoppedMeansAllPublished ==
    proc_pc = "stopped" => Len(published) = ble_packet_count


\* the events the consumer can see or has polled last
Announced ==
    {message_file.content : x \in {1} \cap {IF message_file.exists THEN 1 ELSE 0}}
        \cup {polled[n] : n \in 1 .. Len(polled)}

\* the data_update events among them
Updates == {m \in Announced : m.type = "data_update"}

\* C33: data is published before it is announced. Whenever a data_update
\* event with packet_count = k can be polled or was polled, save_data_batch
\* of the batch ending at sample k has completed; the log the consumer reads
\* after polling it, in the same tick, contains every sample of that batch
\* that later batches have not pushed out of the last 200.
C33_PublishedBeforeAnnounced ==
    /\ [](\A m \in Updates :
            /\ Len(published) >= m.data.packet_count
            /\ SubSeq(published, m.data.packet_count - batch_size + 1, m.data.packet_count)
                   = Batch(m.data.packet_count - batch_size + 1, batch_size))
    /\ [][(tick_pc = "load" /\ tick_pc' = "stats" /\ polled # <<>>
              /\ polled[1].type = "data_update") =>
             LET k == polled[1].data.packet_count
                 loaded == tick_log'[1].loaded[1]
             IN  \A j \in k - batch_size + 1 .. k :
                    j > Len(published) - LoadMaxPoints =>
                        \E n \in 1 .. Len(loaded) : loaded[n] = DataPoint(j)]_vars

\* C33 witness: the tick that polled the data_update for sample 100 has read
\* the log, and what it read ends with the batch 51..100.
C33_Witness ==
    /\ tick_pc = "stats"
    /\ polled # <<>>
    /\ polled[1].type = "data_update"
    /\ polled[1].data.packet_count = 2 * batch_size
    /\ Len(tick_log[1].loaded[1]) = 2 * batch_size
    /\ tick_log[1].loaded[1][2 * batch_size] = DataPoint(2 * batch_size)

\* a tick polled the data_update for sample 50 and read the log only after
\* four more batches: none of the announced batch is among the 200 it read
C33_TruncatedRead ==
    /\ tick_pc = "stats"
    /\ polled # <<>>
    /\ polled[1].type = "data_update"
    /\ polled[1].data.packet_count = batch_size
    /\ tick_log[1].loaded[1][1] = DataPoint(batch_size + 1)

\* C34: the consumer's packet_count never decreases, never exceeds the
\* producer's, and changes only in handle_message of a polled data_update,
\* to the count that event carries.
C34_ConsumerCountFollows ==
    /\ [](mon_packet_count <= ble_packet_count)
    /\ [][/\ mon_packet_count' >= mon_packet_count
          /\ mon_packet_count' # mon_packet_count =>
                /\ tick_pc = "handle"
                /\ polled # <<>>
                /\ polled[1].type = "data_update"
                /\ mon_packet_count' = polled[1].data.packet_count]_vars

\* C34 witness: the consumer had taken the count 50 from a data_update and
\* has then handled a polled 'disconnected', which left the count alone.
C34_Witness ==
    /\ tick_pc = "load"
    /\ polled # <<>>
    /\ polled[1].type = "disconnected"
    /\ mon_packet_count = batch_size


\* every entry of the log has the five keys and an ISO timestamp
WellFormed(log) == \A n \in 1 .. Len(log) : Appends(log[n]) = 3

\* the entries of the log file, none when there is no file
LogEntries == IF data_file.exists THEN data_file.content ELSE <<>>

\* C36: load_latest_data replaces the buffers. After it has run on a
\* well-formed log the three buffers hold the timestamps, axis triples and
\* magnitudes of the last min(200, len(log)) entries of the log, in log
\* order, whatever they held before; their length is at most 200.
C36_LoadReplacesBuffers ==
    [][(tick_pc = "load" /\ tick_pc' = "stats" /\ WellFormed(LogEntries)) =>
          LET n == IF Len(LogEntries) < LoadMaxPoints THEN Len(LogEntries) ELSE LoadMaxPoints
              last == SubSeq(LogEntries, Len(LogEntries) - n + 1, Len(LogEntries))
          IN  /\ mon_timestamps' = [k \in 1 .. n |-> last[k].timestamp]
              /\ mon_acc_data' = [k \in 1 .. n |-> <<last[k].acc_x, last[k].acc_y, last[k].acc_z>>]
              /\ mon_buf_total' = [k \in 1 .. n |-> last[k].acc_total]
              /\ Len(mon_timestamps') <= LoadMaxPoints]_vars

\* C36 witness: a tick in replay mode had fed a sample into the buffers and
\* has then loaded a well-formed log of 201 entries: the buffers hold 200
\* entries, the last one the log's last.
C36_Witness ==
    /\ tick_pc = "stats"
    /\ tick_log[1].fed # <<>>
    /\ WellFormed(LogEntries)
    /\ Len(LogEntries) = LoadMaxPoints + 1
    /\ Len(mon_timestamps) = LoadMaxPoints
    /\ mon_timestamps[LoadMaxPoints] = LogEntries[LoadMaxPoints + 1].timestamp
    /\ mon_timestamps[1] = LogEntries[2].timestamp

\* C37: the three consumer buffers have the same length after every consumer
\* step, for every content of the log, entries with missing or malformed
\* fields included.
C37_BuffersEqualLength ==
    /\ Len(mon_timestamps) = Len(mon_acc_data)
    /\ Len(mon_acc_data) = Len(mon_buf_total)

\* C38: in replay mode the sample feed_test_data appended during a tick is in
\* the buffers when the statistics and the panel of that tick are computed.
C38_FedSampleCharted ==
    (tick_pc = "idle" /\ tick_log # <<>> /\ tick_log[1].fed # <<>>
        /\ tick_log[1].charted # <<>>) =>
        \E n \in 1 .. Len(tick_log[1].charted[1].timestamps) :
            tick_log[1].charted[1].timestamps[n] = tick_log[1].fed[1].timestamp


\* the mock threads that are in their loop and find the flag set at their
\* next test: each of them goes on calling save_data_batch
MockWriters == {m \in MockThreads : mock[m].pc = "check" /\ mock_active}

\* C35: at most one producer writes the log. After any sequence of
\* on_mock_device toggles at most one live thread is calling save_data_batch.
C35_AtMostOneWriter == Cardinality(MockWriters) <= 1


\* the samples data_handler has put in the queue so far, in put order
Enqueued == appended \o data_queue

C40_LoggedStatusAgrees ==
    last_logged # <<>> =>
        LET row == last_logged[1]
            high == FLess(Frac(123, 1), row.mean)
            above == FLess(Frac(103, 1), row.mean)
        IN  /\ row.Status \in {"WARNING", "ATTENTION", "Normal"}
            /\ row.Status = "WARNING" <=> high
            /\ row.Status = "ATTENTION" <=> (above /\ ~high)
            /\ row.Status = "Normal" <=> ~above
            /\ (texts.visible /\ texts.baseline_diff # <<>> /\ evals[1].mean = row.mean) =>
                  /\ row.Status = "WARNING" <=> texts.alert.color = "red"
                  /\ row.Status = "ATTENTION" <=> texts.alert.color = "orange"
                  /\ row.Status = "Normal" <=> texts.alert.text = <<>>
                  /\ row.Baseline_g = Fmt(evals[1].baseline.value, 1)
                  /\ row.Deviation_g = texts.baseline_diff[2]
                  /\ row.Mean_Acc_g = texts.current_val[1]

\* C40 witness: a mean of exactly 1.23 g was logged while the panel showed
\* it: the row says ATTENTION, the panel shows the orange warning.
C40_Witness ==
    /\ last_logged # <<>>
    /\ last_logged[1].mean = Frac(123, 1)
    /\ last_logged[1].Status = "ATTENTION"
    /\ texts.visible
    /\ texts.baseline_diff # <<>>
    /\ evals[1].mean = Frac(123, 1)
    /\ texts.alert.color = "orange"

=============================================================================
